---- MODULE Spec2Model ----
(***************************************************************************)
(* A model of jsredmond/aws-security-baseline:                             *)
(*   - audit/terraform_parser.py : the block extractor, the module         *)
(*     aggregator and the module queries;                                  *)
(*   - wizard/validators.py, wizard/cli.py, wizard/prompts.py,             *)
(*     wizard/main.py : input validation and the two producers of a        *)
(*     WizardConfig;                                                       *)
(*   - wizard/generator.py : the tfvars generator and parser.              *)
(* Text is a sequence of one-character strings.  Positions are 0-based as  *)
(* in the Python source; Ch and Slice translate them.                      *)
(***************************************************************************)
EXTENDS Integers, Sequences, FiniteSets, TLC

VARIABLES
    \* audit/terraform_parser.py
    ppc,        \* position in parse_module: "start", "loop", "returned", "raised"
    dirExists,  \* whether module_path exists
    files,      \* the *.tf files of the directory, in glob's enumeration order
    fileIdx,    \* number of files handed to _parse_file so far
    module,     \* the TerraformModule being built
    trail,      \* the module as it was before each file was attempted, and after the last
    qres,       \* the last query made on the returned module
    \* wizard/validators.py
    vin,        \* the argument a validator is called with
    vout,       \* the last validator call and what it returned
    \* wizard/main.py, wizard/cli.py, wizard/prompts.py
    wpc,        \* position in main() and in the prompt functions it calls
    argv,       \* the command line
    args,       \* the argparse Namespace, once parse_args has returned
    sel,        \* locals of run_interactive_mode: modules, region, environment, tags
    config,     \* the WizardConfig handed on by the mode that ran
    exitCode,   \* the exit status of the process, -1 while main is running
    outcome,    \* what generate_tfvars returned, the exception that ended main
    typed,      \* the entries typed at the tag prompts of this configure_tags call
    restarted,  \* whether "Restarting configuration..." was printed
    \* wizard/generator.py
    tcfg,       \* the WizardConfig given to generate_tfvars_content
    ttext,      \* the text generate_tfvars_content returned
    tlines,     \* that text split in lines by parse_tfvars_content
    tpos,       \* number of lines parse_tfvars_content has consumed
    tstate,     \* "start", "generated", then the parser's state: "SCANNING",
                \* "IN_TAG_BLOCK", "DONE"
    tparsed,    \* the WizardConfig being rebuilt by parse_tfvars_content
    \* audit/audit.py, AuditReport
    report,     \* the AuditReport object: its findings list
    acall       \* the last method called on it: its name, the findings list
                \* before the call, and what it returned

parserVars == <<ppc, dirExists, files, fileIdx, module, trail, qres>>
validatorVars == <<vin, vout>>
wizardVars == <<wpc, argv, args, sel, config, exitCode, outcome, typed, restarted>>
tfvarsVars == <<tcfg, ttext, tlines, tpos, tstate, tparsed>>
auditVars == <<report, acall>>
vars == <<parserVars, validatorVars, wizardVars, tfvarsVars, auditVars>>

\* A component that a run does not exercise stays as it is before its entry.
ParserIdle ==
    /\ ppc = "idle" /\ dirExists = FALSE /\ files = <<>> /\ fileIdx = 0
    /\ module = <<>> /\ trail = <<>> /\ qres = <<>>
ValidatorIdle == vin = <<>> /\ vout = <<>>
WizardIdle ==
    /\ wpc = "idle" /\ argv = <<>> /\ args = <<>> /\ sel = <<>>
    /\ config = <<>> /\ exitCode = -1 /\ outcome = <<>> /\ typed = <<>>
    /\ restarted = FALSE
TfvarsIdle ==
    /\ tcfg = <<>> /\ ttext = <<>> /\ tlines = <<>> /\ tpos = 0 /\ tstate = "idle"
    /\ tparsed = <<>>
AuditIdle == report = <<>> /\ acall = <<>>

-----------------------------------------------------------------------------
(* Text helpers: Python indexing, slicing, str.strip, dict.update.          *)

Quote == "\""
Newline == "\n"

LowerChars ==
    {"a","b","c","d","e","f","g","h","i","j","k","l","m",
     "n","o","p","q","r","s","t","u","v","w","x","y","z"}
DigitChars == {"0","1","2","3","4","5","6","7","8","9"}
SpaceChars == {" ", "\n", "\t"}

Ch(s, p) == s[p + 1]
Slice(s, a, b) == SubSeq(s, a + 1, b)

IsSpace(c) == c \in SpaceChars

RECURSIVE SkipSpace(_, _)
SkipSpace(s, p) ==
    IF p < Len(s) /\ IsSpace(Ch(s, p)) THEN SkipSpace(s, p + 1) ELSE p

RECURSIVE SkipSpaceBack(_, _)
SkipSpaceBack(s, e) ==
    IF e > 0 /\ IsSpace(Ch(s, e - 1)) THEN SkipSpaceBack(s, e - 1) ELSE e

Strip(s) ==
    LET a == SkipSpace(s, 0)
        e == SkipSpaceBack(s, Len(s))
    IN  IF a >= e THEN <<>> ELSE Slice(s, a, e)

MinOf(S) == CHOOSE x \in S : \A y \in S : x <= y

\* The least position of a set of hits, or -1: where a left-to-right scan stops.
FirstOf(hits) == IF hits = {} THEN -1 ELSE MinOf(hits)

\* str.find(c, p)
FindChar(s, p, c) == FirstOf({q \in p..(Len(s) - 1) : Ch(s, q) = c})

\* str.count(c)
CountChar(s, c) == Cardinality({i \in 1..Len(s) : s[i] = c})

StartsWithAt(s, p, lit) ==
    /\ p + Len(lit) <= Len(s)
    /\ Ch(s, p) = lit[1]
    /\ Slice(s, p, p + Len(lit)) = lit

EmptyMap == <<>>
MapPut(d, k, v) == [x \in (DOMAIN d) \cup {k} |-> IF x = k THEN v ELSE d[x]]
MapUpdate(d, e) ==
    [x \in (DOMAIN d) \cup (DOMAIN e) |-> IF x \in DOMAIN e THEN e[x] ELSE d[x]]
MapKeepFirst(d, e) == MapUpdate(e, d)

NoMatch == [ok |-> FALSE]

-----------------------------------------------------------------------------
(* audit/terraform_parser.py: the block extractor.                          *)

KwResource == <<"r","e","s","o","u","r","c","e">>
KwVariable == <<"v","a","r","i","a","b","l","e">>
KwOutput == <<"o","u","t","p","u","t">>
KwLocals == <<"l","o","c","a","l","s">>

\* "([^"]+)" at p: a quote, one or more non-quote characters, a quote.
MatchQuoted(s, p) ==
    IF p < Len(s) /\ Ch(s, p) = Quote
    THEN LET q == FindChar(s, p + 1, Quote)
         IN  IF q > p + 1
             THEN [ok |-> TRUE, text |-> Slice(s, p + 1, q), end |-> q + 1]
             ELSE NoMatch
    ELSE NoMatch

\* \s*\{ at p: the position after the brace, or -1.
MatchOpenBrace(s, p) ==
    LET b == SkipSpace(s, p)
    IN  IF b < Len(s) /\ Ch(s, b) = "{" THEN b + 1 ELSE -1

\* resource\s+"([^"]+)"\s+"([^"]+)"\s*\{ at p.
MatchResourceAt(s, p) ==
    IF ~StartsWithAt(s, p, KwResource) THEN NoMatch
    ELSE LET a == p + Len(KwResource)
             b == SkipSpace(s, a)
             t == MatchQuoted(s, b)
         IN  IF b = a \/ ~t.ok THEN NoMatch
             ELSE LET c == SkipSpace(s, t.end)
                      n == MatchQuoted(s, c)
                  IN  IF c = t.end \/ ~n.ok THEN NoMatch
                      ELSE LET e == MatchOpenBrace(s, n.end)
                           IN  IF e < 0 THEN NoMatch
                               ELSE [ok |-> TRUE, start |-> p, end |-> e,
                                     g1 |-> t.text, g2 |-> n.text]

\* <keyword>\s+"([^"]+)"\s*\{ at p (var_pattern, output_pattern).
MatchNamedAt(kw, s, p) ==
    IF ~StartsWithAt(s, p, kw) THEN NoMatch
    ELSE LET a == p + Len(kw)
             b == SkipSpace(s, a)
             n == MatchQuoted(s, b)
         IN  IF b = a \/ ~n.ok THEN NoMatch
             ELSE LET e == MatchOpenBrace(s, n.end)
                  IN  IF e < 0 THEN NoMatch
                      ELSE [ok |-> TRUE, start |-> p, end |-> e, g1 |-> n.text]

\* locals\s*\{ at p.
MatchLocalsAt(s, p) ==
    IF ~StartsWithAt(s, p, KwLocals) THEN NoMatch
    ELSE LET e == MatchOpenBrace(s, p + Len(KwLocals))
         IN  IF e < 0 THEN NoMatch ELSE [ok |-> TRUE, start |-> p, end |-> e]

\* The brace-balance loop of _extract_block_content: the final value of pos.
\* A character that is no brace only advances pos, so the loop is taken from
\* one brace to the next.
RECURSIVE ScanBraces(_, _, _)
ScanBraces(content, pos, brace_count) ==
    IF pos < Len(content) /\ brace_count > 0
    THEN LET b == FirstOf({q \in pos..(Len(content) - 1) : Ch(content, q) \in {"{", "}"}})
         IN  IF b < 0 THEN Len(content)
             ELSE ScanBraces(content, b + 1,
                             IF Ch(content, b) = "{" THEN brace_count + 1
                             ELSE brace_count - 1)
    ELSE pos

\* Mutant: the slice keeps the character at pos - 1 (the closing brace).
_extract_block_content_incl(content, start_pos) ==
    Slice(content, start_pos, ScanBraces(content, start_pos, 1))

\* content[start_pos : pos - 1]
_extract_block_content(content, start_pos) ==
    Slice(content, start_pos, ScanBraces(content, start_pos, 1) - 1)

IsKeyStart(c) == c \in LowerChars \cup {"_"}
IsKeyChar(c) == c \in LowerChars \cup DigitChars \cup {"_"}

RECURSIVE SkipKey(_, _)
SkipKey(s, p) ==
    IF p < Len(s) /\ IsKeyChar(Ch(s, p)) THEN SkipKey(s, p + 1) ELSE p

\* (?=\n\s*[a-z_]|\n\s*\}|\Z) at j.
LookaheadOK(s, j) ==
    \/ j = Len(s)
    \/ /\ Ch(s, j) = Newline
       /\ LET k == SkipSpace(s, j + 1)
          IN  k < Len(s) /\ (IsKeyStart(Ch(s, k)) \/ Ch(s, k) = "}")

\* (.+?) followed by the lookahead: the first j at which the lookahead holds.
LazyEnd(s, j) == FirstOf({q \in j..Len(s) : LookaheadOK(s, q)})

\* ^\s*([a-z_][a-z0-9_]*)\s*=\s*(.+?)(?=...) at p, MULTILINE | DOTALL.
\* When the whitespace after "=" runs to the end of the text, the regex
\* backtracks and (.+?) takes the last whitespace character.
MatchAttrAt(s, p) ==
    IF ~(p = 0 \/ Ch(s, p - 1) = Newline) THEN NoMatch
    ELSE LET k0 == SkipSpace(s, p)
         IN  IF ~(k0 < Len(s) /\ IsKeyStart(Ch(s, k0))) THEN NoMatch
             ELSE LET k1 == SkipKey(s, k0 + 1)
                      e0 == SkipSpace(s, k1)
                  IN  IF ~(e0 < Len(s) /\ Ch(s, e0) = "=") THEN NoMatch
                      ELSE LET v0 == SkipSpace(s, e0 + 1)
                           IN  IF v0 < Len(s)
                               THEN LET e == LazyEnd(s, v0 + 1)
                                    IN  [ok |-> TRUE, start |-> p, end |-> e,
                                         g1 |-> Slice(s, k0, k1),
                                         g2 |-> Slice(s, v0, e)]
                               ELSE IF v0 > e0 + 1
                               THEN [ok |-> TRUE, start |-> p, end |-> v0,
                                     g1 |-> Slice(s, k0, k1),
                                     g2 |-> Slice(s, v0 - 1, v0)]
                               ELSE NoMatch

\* One pattern tried at one position.
MatchAt(kind, s, p) ==
    CASE kind = "resource" -> MatchResourceAt(s, p)
      [] kind = "variable" -> MatchNamedAt(KwVariable, s, p)
      [] kind = "output" -> MatchNamedAt(KwOutput, s, p)
      [] kind = "locals" -> MatchLocalsAt(s, p)
      [] kind = "attr" -> MatchAttrAt(s, p)

\* re.finditer: leftmost non-overlapping matches, scanning on from each match's end.
RECURSIVE FindIter(_, _, _)
FindIter(kind, s, p) ==
    LET q == FirstOf({i \in p..(Len(s) - 1) : MatchAt(kind, s, i).ok})
    IN  IF q < 0 THEN <<>>
        ELSE LET m == MatchAt(kind, s, q)
             IN  <<m>> \o FindIter(kind, s, m.end)

RECURSIVE AttrFold(_, _)
AttrFold(ms, acc) ==
    IF ms = <<>> THEN acc
    ELSE AttrFold(Tail(ms), MapPut(acc, Head(ms).g1, Strip(Head(ms).g2)))

_parse_attributes(block_content) ==
    AttrFold(FindIter("attr", block_content, 0), EmptyMap)

ResourceOf(content, file_path, m) ==
    [resource_type |-> m.g1,
     resource_name |-> m.g2,
     attributes |-> _parse_attributes(_extract_block_content(content, m.end)),
     file_path |-> file_path,
     line_number |-> CountChar(Slice(content, 0, m.start), Newline) + 1]

_extract_resources(content, file_path) ==
    LET ms == FindIter("resource", content, 0)
    IN  [i \in 1..Len(ms) |-> ResourceOf(content, file_path, ms[i])]

RECURSIVE NamedFold(_, _, _)
NamedFold(content, ms, acc) ==
    IF ms = <<>> THEN acc
    ELSE NamedFold(content, Tail(ms),
                   MapPut(acc, Head(ms).g1,
                          _parse_attributes(_extract_block_content(content, Head(ms).end))))

_extract_variables(content) == NamedFold(content, FindIter("variable", content, 0), EmptyMap)

_extract_outputs(content) == NamedFold(content, FindIter("output", content, 0), EmptyMap)

RECURSIVE LocalsFold(_, _, _)
LocalsFold(content, ms, acc) ==
    IF ms = <<>> THEN acc
    ELSE LocalsFold(content, Tail(ms),
                    MapUpdate(acc, _parse_attributes(_extract_block_content(content, Head(ms).end))))

_extract_locals(content) == LocalsFold(content, FindIter("locals", content, 0), EmptyMap)

-----------------------------------------------------------------------------
(* The directory: file texts and read outcomes the aggregator is run on.      *)

\* The single-line resource of spec section 8.
SingleLineText ==
    <<"r","e","s","o","u","r","c","e"," ","\"","a","w","s","_","s","3","_","b","u","c","k",
      "e","t","\""," ","\"","e","x","a","m","p","l","e","\""," ","{"," ","b","u","c","k",
      "e","t"," ","="," ","\"","m","y","-","b","u","c","k","e","t","\""," ","v","e","r","s",
      "i","o","n","i","n","g"," ","="," ","t","r","u","e"," ","}">>

\* The same resource with one assignment per line, then a variable and an output.
MultiLineText ==
    <<"r","e","s","o","u","r","c","e"," ","\"","a","w","s","_","s","3","_","b","u","c","k",
      "e","t","\""," ","\"","e","x","a","m","p","l","e","\""," ","{","\n"," "," ","b","u",
      "c","k","e","t"," ","="," ","\"","m","y","-","b","u","c","k","e","t","\"","\n"," ",
      " ","v","e","r","s","i","o","n","i","n","g"," ","="," ","t","r","u","e","\n","}","\n",
      "v","a","r","i","a","b","l","e"," ","\"","r","e","g","i","o","n","\""," ","{","\n",
      " "," ","d","e","f","a","u","l","t"," ","="," ","\"","a","\"","\n","}","\n","o","u",
      "t","p","u","t"," ","\"","o","\""," ","{","\n"," "," ","v","a","l","u","e"," ","=",
      " ","1","\n","}","\n">>

\* A second file: the same variable and output with other bodies, two more resources.
OtherText ==
    <<"v","a","r","i","a","b","l","e"," ","\"","r","e","g","i","o","n","\""," ","{","\n",
      " "," ","t","y","p","e"," ","="," ","s","t","r","i","n","g","\n","}","\n","o","u","t",
      "p","u","t"," ","\"","o","\""," ","{","\n"," "," ","d","e","s","c","r","i","p","t",
      "i","o","n"," ","="," ","\"","d","\"","\n","}","\n","r","e","s","o","u","r","c","e",
      " ","\"","a","w","s","_","s","3","_","b","u","c","k","e","t","\""," ","\"","o","t",
      "h","e","r","\""," ","{","\n"," "," ","a","c","l"," ","="," ","\"","p","r","i","v",
      "a","t","e","\"","\n","}","\n","r","e","s","o","u","r","c","e"," ","\"","a","w","s",
      "_","s","3","_","b","u","c","k","e","t","\""," ","\"","e","x","a","m","p","l","e",
      "\""," ","{","\n"," "," ","b","u","c","k","e","t"," ","="," ","\"","s","e","c","o",
      "n","d","\"","\n","}","\n">>

\* A locals block, then a resource whose braces are never closed.
UnbalancedText ==
    <<"l","o","c","a","l","s"," ","{","\n"," "," ","e","n","v"," ","="," ","\"","d","e","v",
      "\"","\n","}","\n","r","e","s","o","u","r","c","e"," ","\"","a","w","s","_","k","m",
      "s","_","k","e","y","\""," ","\"","k","\""," ","{","\n"," "," ","t","a","g","s"," ",
      "="," ","{","\n"," "," "," "," ","a"," ","="," ","1">>

S3Bucket ==
    <<"a","w","s","_","s","3","_","b","u","c","k","e","t">>

KmsKey ==
    <<"a","w","s","_","k","m","s","_","k","e","y">>

NoType ==
    <<"a","w","s","_","v","p","c">>

NmExample ==
    <<"e","x","a","m","p","l","e">>

NmOther ==
    <<"o","t","h","e","r">>

NmK ==
    <<"k">>

KeyBucket ==
    <<"b","u","c","k","e","t">>

KeyVersioning ==
    <<"v","e","r","s","i","o","n","i","n","g">>

NmRegion ==
    <<"r","e","g","i","o","n">>

NmO ==
    <<"o">>

RawMyBucket ==
    <<"\"","m","y","-","b","u","c","k","e","t","\"">>

RawTrue ==
    <<"t","r","u","e">>

RawWholeLine ==
    <<"\"","m","y","-","b","u","c","k","e","t","\""," ","v","e","r","s","i","o","n","i","n",
      "g"," ","="," ","t","r","u","e">>

-----------------------------------------------------------------------------
(* audit/terraform_parser.py: TerraformModule, parse_module, _parse_file.   *)

MaxFiles == 2

PathNames == <<"a.tf", "b.tf", "c.tf", "d.tf">>

FileTexts == {SingleLineText, MultiLineText, OtherText, UnbalancedText}

\* What open()/read() does for one file: the text, or the exception it raises.
ReadOutcomes ==
    [read : {"ok"}, content : FileTexts]
        \cup [read : {"OSError", "UnicodeDecodeError"}, content : {<<>>}]

Listings ==
    UNION {[1..n -> ReadOutcomes] : n \in 0..MaxFiles}

QueryTypes == {S3Bucket, KmsKey, NoType}
QueryNames == {NmExample, NmOther, NmK}

\* TerraformModule.__init__
NewModule ==
    [resources |-> <<>>, variables |-> EmptyMap, outputs |-> EmptyMap, locals |-> EmptyMap]

\* Mutant: the first file to define a name keeps it.
MergeFileKeepFirst(content, file_path, m) ==
    [resources |-> m.resources \o _extract_resources(content, file_path),
     variables |-> MapKeepFirst(m.variables, _extract_variables(content)),
     outputs |-> MapKeepFirst(m.outputs, _extract_outputs(content)),
     locals |-> MapUpdate(m.locals, _extract_locals(content))]

\* The body of the try block of _parse_file, after a successful read.
MergeFile(content, file_path, m) ==
    [resources |-> m.resources \o _extract_resources(content, file_path),
     variables |-> MapUpdate(m.variables, _extract_variables(content)),
     outputs |-> MapUpdate(m.outputs, _extract_outputs(content)),
     locals |-> MapUpdate(m.locals, _extract_locals(content))]

\* Mutant: no except clause, a read error leaves _parse_file.
_parse_file_uncaught(f, file_path, m) ==
    IF f.read = "ok"
    THEN [module |-> MergeFile(f.content, file_path, m), escaped |-> "none"]
    ELSE [module |-> m, escaped |-> f.read]

\* Mutant: a failed read resets what was merged so far.
_parse_file_reset(f, file_path, m) ==
    IF f.read = "ok"
    THEN [module |-> MergeFile(f.content, file_path, m), escaped |-> "none"]
    ELSE [module |-> NewModule, escaped |-> "none"]

\* _parse_file: the module after the call, and the exception that leaves it.
\* open()/read() raise before anything is merged; except Exception swallows it.
_parse_file(f, file_path, m) ==
    IF f.read = "ok"
    THEN [module |-> MergeFile(f.content, file_path, m), escaped |-> "none"]
    ELSE [module |-> m, escaped |-> "none"]

\* The list comprehension of get_resources_by_type.
RECURSIVE get_resources_by_type(_, _)
get_resources_by_type(rs, resource_type) ==
    IF rs = <<>> THEN <<>>
    ELSE (IF Head(rs).resource_type = resource_type THEN <<Head(rs)>> ELSE <<>>)
             \o get_resources_by_type(Tail(rs), resource_type)

None == [none |-> TRUE]

\* Mutant: the loop does not return at the first hit, the last one wins.
RECURSIVE get_resource_last(_, _, _)
get_resource_last(rs, resource_type, resource_name) ==
    IF rs = <<>> THEN None
    ELSE LET r == rs[Len(rs)]
         IN  IF r.resource_type = resource_type /\ r.resource_name = resource_name
             THEN r
             ELSE get_resource_last(SubSeq(rs, 1, Len(rs) - 1), resource_type, resource_name)

\* The loop of get_resource.
RECURSIVE get_resource(_, _, _)
get_resource(rs, resource_type, resource_name) ==
    IF rs = <<>> THEN None
    ELSE IF Head(rs).resource_type = resource_type /\ Head(rs).resource_name = resource_name
         THEN Head(rs)
         ELSE get_resource(Tail(rs), resource_type, resource_name)

has_resource_type(rs, resource_type) ==
    Len(get_resources_by_type(rs, resource_type)) > 0

NoQuery == [op |-> "none"]

ParserInit ==
    /\ ppc = "start"
    /\ dirExists \in BOOLEAN
    /\ files \in Listings
    /\ (~dirExists => files = <<>>)
    /\ fileIdx = 0
    /\ module = NewModule
    /\ trail = <<>>
    /\ qres = NoQuery
    /\ ValidatorIdle /\ WizardIdle /\ TfvarsIdle /\ AuditIdle

\* parse_module up to the loop: module_dir.exists() decides.
ParseModuleRaise ==
    /\ ppc = "start"
    /\ ~dirExists
    /\ ppc' = "raised"
    /\ UNCHANGED <<dirExists, files, fileIdx, module, trail, qres,
                   validatorVars, wizardVars, tfvarsVars, auditVars>>

ParseModuleEnter ==
    /\ ppc = "start"
    /\ dirExists
    /\ ppc' = "loop"
    /\ module' = NewModule
    /\ trail' = <<NewModule>>
    /\ fileIdx' = 0
    /\ UNCHANGED <<dirExists, files, qres,
                   validatorVars, wizardVars, tfvarsVars, auditVars>>

\* One iteration of the loop over glob("*.tf").
ParseFile ==
    /\ ppc = "loop"
    /\ fileIdx < Len(files)
    /\ LET r == _parse_file(files[fileIdx + 1], PathNames[fileIdx + 1], module)
       IN  /\ module' = r.module
           /\ trail' = Append(trail, r.module)
           /\ ppc' = IF r.escaped = "none" THEN "loop" ELSE "raised"
    /\ fileIdx' = fileIdx + 1
    /\ UNCHANGED <<dirExists, files, qres,
                   validatorVars, wizardVars, tfvarsVars, auditVars>>

ParseModuleReturn ==
    /\ ppc = "loop"
    /\ fileIdx = Len(files)
    /\ ppc' = "returned"
    /\ UNCHANGED <<dirExists, files, fileIdx, module, trail, qres,
                   validatorVars, wizardVars, tfvarsVars, auditVars>>

QueryByType ==
    /\ ppc = "returned"
    /\ \E t \in QueryTypes :
          qres' = [op |-> "get_resources_by_type", type |-> t,
                   result |-> get_resources_by_type(module.resources, t)]
    /\ UNCHANGED <<ppc, dirExists, files, fileIdx, module, trail,
                   validatorVars, wizardVars, tfvarsVars, auditVars>>

QueryResource ==
    /\ ppc = "returned"
    /\ \E t \in QueryTypes, n \in QueryNames :
          qres' = [op |-> "get_resource", type |-> t, name |-> n,
                   result |-> get_resource(module.resources, t, n)]
    /\ UNCHANGED <<ppc, dirExists, files, fileIdx, module, trail,
                   validatorVars, wizardVars, tfvarsVars, auditVars>>

QueryHasType ==
    /\ ppc = "returned"
    /\ \E t \in QueryTypes :
          qres' = [op |-> "has_resource_type", type |-> t,
                   result |-> has_resource_type(module.resources, t)]
    /\ UNCHANGED <<ppc, dirExists, files, fileIdx, module, trail,
                   validatorVars, wizardVars, tfvarsVars, auditVars>>

ParserNext ==
    \/ ParseModuleRaise
    \/ ParseModuleEnter
    \/ ParseFile
    \/ ParseModuleReturn
    \/ QueryByType
    \/ QueryResource
    \/ QueryHasType

SpecParser == ParserInit /\ [][ParserNext]_vars

-----------------------------------------------------------------------------
(* Claims about the block extractor, the aggregator and the queries.        *)

KeyType ==
    <<"t","y","p","e">>

RawString ==
    <<"s","t","r","i","n","g">>

OkFile(text) == [read |-> "ok", content |-> text]

Returned == ppc = "returned"

\* The resource matches of a file text, as _extract_resources finds them.
ResourceMatches(content) ==
    LET ms == FindIter("resource", content, 0)
    IN  {ms[i] : i \in 1..Len(ms)}

\* The running brace count after content[start .. q], counted from 1.
DepthAfter(content, start, q) ==
    1 + Cardinality({i \in start..q : Ch(content, i) = "{"})
      - Cardinality({i \in start..q : Ch(content, i) = "}"})

\* An opening brace with no matching closing brace before the end of input.
Unbalanced(content, start) ==
    \A q \in start..(Len(content) - 1) : DepthAfter(content, start, q) > 0

\* C3, as stated: for the single-line text resource "aws_s3_bucket" "example"
\* { bucket = "my-bucket" versioning = true }, extraction returns one block of type
\* aws_s3_bucket named example whose attribute map is exactly
\* {bucket: "my-bucket" (raw, quoted), versioning: true}.
C3_SingleLineTwoAttributes ==
    (Returned /\ files = <<OkFile(SingleLineText)>>) =>
        /\ Len(module.resources) = 1
        /\ module.resources[1].resource_type = S3Bucket
        /\ module.resources[1].resource_name = NmExample
        /\ module.resources[1].attributes
               = (KeyBucket :> RawMyBucket @@ KeyVersioning :> RawTrue)

\* C3, amended: for the single-line text, extraction returns one block of type
\* aws_s3_bucket named example whose attribute map has the single key bucket, with
\* the raw text "my-bucket" versioning = true (the rest of the line); the two-entry
\* map {bucket: "my-bucket", versioning: true} is what the same resource yields when
\* each assignment is on a line of its own.
C3_SingleLineOneAttribute ==
    /\ (Returned /\ files = <<OkFile(SingleLineText)>>) =>
           /\ Len(module.resources) = 1
           /\ module.resources[1].resource_type = S3Bucket
           /\ module.resources[1].resource_name = NmExample
           /\ module.resources[1].line_number = 1
           /\ module.resources[1].attributes = (KeyBucket :> RawWholeLine)
    /\ (Returned /\ files = <<OkFile(MultiLineText)>>) =>
           /\ Len(module.resources) = 1
           /\ module.resources[1].resource_type = S3Bucket
           /\ module.resources[1].resource_name = NmExample
           /\ module.resources[1].attributes
                  = (KeyBucket :> RawMyBucket @@ KeyVersioning :> RawTrue)

C3_Witness ==
    /\ Returned
    /\ files = <<OkFile(SingleLineText)>>
    /\ Len(module.resources) = 1
    /\ DOMAIN module.resources[1].attributes = {KeyBucket}

\* C4: for every parsed file and every resource block in it whose braces are
\* unbalanced, the body that block extraction returns is the whole remainder of the
\* input, from just after the opening brace through the last character.
C4_UnbalancedBodyIsRemainder ==
    \A i \in 1..fileIdx :
        files[i].read = "ok" =>
            \A m \in ResourceMatches(files[i].content) :
                Unbalanced(files[i].content, m.end) =>
                    _extract_block_content(files[i].content, m.end)
                        = Slice(files[i].content, m.end, Len(files[i].content))

\* C5: parse_module raises (FileNotFoundError) exactly when the directory does not
\* exist; when it exists no exception leaves parse_module, whatever the files' read
\* outcomes and texts: it is in its loop or has returned the module.
C5_RaisesOnlyWhenDirMissing ==
    /\ (ppc = "raised" => ~dirExists)
    /\ (~dirExists => ppc \in {"start", "raised"})
    /\ (dirExists /\ ppc # "start" => ppc \in {"loop", "returned"})

C5_Witness ==
    /\ Returned
    /\ \E i \in 1..Len(files) : files[i].read = "UnicodeDecodeError"
    /\ \E i \in 1..Len(files) : files[i] = OkFile(UnbalancedText)

\* C6: a file whose read or decode fails leaves resources, variables, outputs and
\* locals exactly as they were before it was attempted; the loop goes on, so every
\* other file is parsed and merged and no file is left unattempted at the return.
C6_FailedFileContributesNothing ==
    /\ \A i \in 1..fileIdx :
           IF files[i].read = "ok"
           THEN trail[i + 1] = MergeFile(files[i].content, PathNames[i], trail[i])
           ELSE trail[i + 1] = trail[i]
    /\ (ppc # "start" /\ dirExists => module = trail[fileIdx + 1])
    /\ (dirExists => ppc # "raised")
    /\ (Returned => fileIdx = Len(files))

C6_Witness ==
    /\ Returned
    /\ Len(files) = 2
    /\ files[1] = OkFile(MultiLineText)
    /\ files[2].read = "OSError"
    /\ Len(module.resources) = 1
    /\ DOMAIN module.variables = {NmRegion}

\* The last successfully read file, up to n, whose text defines nm.
LastDefiner(Extract(_), nm, n) ==
    LET ds == {i \in 1..n : files[i].read = "ok" /\ nm \in DOMAIN Extract(files[i].content)}
    IN  CHOOSE i \in ds : \A j \in ds : j <= i

\* C7: in the returned module each variable (and each output) name has one entry,
\* and it is the whole attribute map extracted from the last enumerated file that
\* defines the name; nothing of an earlier file's attributes for it remains.
C7_LaterFileWins ==
    Returned =>
        /\ \A nm \in DOMAIN module.variables :
               module.variables[nm]
                   = _extract_variables(
                         files[LastDefiner(_extract_variables, nm, Len(files))].content)[nm]
        /\ \A nm \in DOMAIN module.outputs :
               module.outputs[nm]
                   = _extract_outputs(
                         files[LastDefiner(_extract_outputs, nm, Len(files))].content)[nm]

C7_Witness ==
    /\ Returned
    /\ files = <<OkFile(MultiLineText), OkFile(OtherText)>>
    /\ module.variables = (NmRegion :> (KeyType :> RawString))

\* The positions of the stored resources of type t.
TypeHits(rs, t) == {i \in 1..Len(rs) : rs[i].resource_type = t}

\* The k-th smallest element of a set of positions.
Nth(S, k) == CHOOSE i \in S : Cardinality({j \in S : j <= i}) = k

\* What a query that has just been answered must have answered.
QueryAnswerRight(q, rs) ==
    /\ q.op = "get_resources_by_type" =>
           /\ Len(q.result) = Cardinality(TypeHits(rs, q.type))
           /\ \A k \in 1..Len(q.result) : q.result[k] = rs[Nth(TypeHits(rs, q.type), k)]
    /\ q.op = "has_resource_type" =>
           (q.result <=> TypeHits(rs, q.type) # {})
    /\ q.op = "get_resource" =>
           LET hits == {i \in TypeHits(rs, q.type) : rs[i].resource_name = q.name}
           IN  IF hits = {} THEN q.result = None
               ELSE q.result = rs[MinOf(hits)]

\* C8: every query step leaves the module as it is, and answers with: the stored
\* resources of the type, in stored order (get_resources_by_type); whether there
\* is one (has_resource_type); the first stored resource of the type and name, or
\* None when there is none (get_resource).
C8_QueriesAreConsistentScans ==
    [][(ppc = "returned" /\ ppc' = "returned") =>
          (module' = module /\ QueryAnswerRight(qres', module.resources))]_vars

C8_Witness ==
    /\ Returned
    /\ qres.op = "get_resource"
    /\ qres.result # None
    /\ Len(module.resources) = 3
    /\ Cardinality({i \in TypeHits(module.resources, qres.type) :
                        module.resources[i].resource_name = qres.name}) = 2
    /\ module.resources[1].attributes # module.resources[3].attributes

-----------------------------------------------------------------------------
(* wizard/validators.py.  A Python value is tagged with its type so that    *)
(* the isinstance tests can be written.                                     *)

UpperChars ==
    {"A","B","C","D","E","F","G","H","I","J","K","L","M",
     "N","O","P","Q","R","S","T","U","V","W","X","Y","Z"}
\* A decimal digit outside ASCII (ARABIC-INDIC DIGIT THREE), named by its
\* code point: \d of a str pattern matches every Unicode decimal digit.
ArabicThree == "U+0663"
UnicodeDigits == DigitChars \cup {ArabicThree}
EnvChars == LowerChars \cup UpperChars \cup DigitChars \cup {"-"}

Str(s) == [t |-> "str", v |-> s]
PyNone == [t |-> "NoneType", v |-> <<>>]
\* an int, held as its decimal numeral
PyInt(numeral) == [t |-> "int", v |-> numeral]
\* bool(x) of a str, None or int
Truthy(x) ==
    CASE x.t = "str" -> Len(x.v) > 0
      [] x.t = "int" -> x.v # <<"0">>
      [] OTHER -> FALSE

InClass(s, p, class) == p < Len(s) /\ Ch(s, p) \in class
RECURSIVE SkipClass(_, _, _)
SkipClass(s, p, class) ==
    IF InClass(s, p, class) THEN SkipClass(s, p + 1, class) ELSE p

\* "$" without re.MULTILINE: at the end of the string, and also just before
\* a line break that is the last character.
DollarAt(s, p) == p = Len(s) \/ (p = Len(s) - 1 /\ Ch(s, p) = Newline)

\* AWS_REGION_PATTERN.match(s) is not None.  Each greedy run is followed by
\* something outside its class, so a shorter run never matches where the
\* longest does not.
AWS_REGION_PATTERN(s) ==
    /\ InClass(s, 0, LowerChars)
    /\ InClass(s, 1, LowerChars)
    /\ InClass(s, 2, {"-"})
    /\ LET q == SkipClass(s, 3, LowerChars)
       IN  /\ q > 3
           /\ InClass(s, q, {"-"})
           /\ LET r == SkipClass(s, q + 1, UnicodeDigits)
              IN  r > q + 1 /\ DollarAt(s, r)

\* ENVIRONMENT_PATTERN.match(s) is not None.
ENVIRONMENT_PATTERN(s) ==
    LET q == SkipClass(s, 0, EnvChars)
    IN  q > 0 /\ DollarAt(s, q)

validate_region(region) ==
    IF ~Truthy(region) \/ region.t # "str" THEN FALSE
    ELSE AWS_REGION_PATTERN(region.v)

validate_environment(env) ==
    IF ~Truthy(env) \/ env.t # "str" THEN FALSE
    ELSE ENVIRONMENT_PATTERN(env.v)

validate_tag_key(key) ==
    IF key.t # "str" THEN FALSE
    ELSE Len(Strip(key.v)) > 0

\* The arguments the validators are tried on: every text up to MaxArgLen
\* characters over ArgAlphabet, some longer or differently spelt texts, and
\* values that are not strings.
MaxArgLen == 7
ArgAlphabet == {"a", "-", "1", Newline}
ArgTexts == UNION {[1..k -> ArgAlphabet] : k \in 0..MaxArgLen}
UsEast1 == <<"u","s","-","e","a","s","t","-","1">>
Dev == <<"d","e","v">>
MoreArgTexts ==
    {UsEast1, UsEast1 \o <<Newline>>, UsEast1 \o <<Newline, Newline>>,
     UsEast1 \o <<" ">>, <<Newline>> \o UsEast1,
     <<"u","s","-","e","a","s","t","-",ArabicThree>>,
     <<"U","S","-","e","a","s","t","-","1">>,
     <<"u","s","-","E","a","s","t","-","1">>,
     <<"u","s","_","e","a","s","t","_","1">>,
     <<"u","s","e","-","e","a","s","t","-","1">>,
     Dev, Dev \o <<Newline>>, <<"D","e","v","-","2">>, <<"m","y"," ","e","n","v">>,
     <<"d","e","v","_","1">>, <<"d","e","v",ArabicThree>>,
     <<" ">>, <<" ", "\t">>, <<" ", "k", " ">>}
ValidatorInputs ==
    {Str(s) : s \in ArgTexts \cup MoreArgTexts} \cup {PyNone, PyInt(<<"0">>), PyInt(<<"5">>)}

NoCall == [fn |-> "none"]

ValidatorInit ==
    /\ vin \in ValidatorInputs
    /\ vout = NoCall
    /\ ParserIdle /\ WizardIdle /\ TfvarsIdle /\ AuditIdle

CallValidateRegion ==
    /\ vout' = [fn |-> "validate_region", result |-> validate_region(vin)]
    /\ UNCHANGED <<vin, parserVars, wizardVars, tfvarsVars, auditVars>>

CallValidateEnvironment ==
    /\ vout' = [fn |-> "validate_environment", result |-> validate_environment(vin)]
    /\ UNCHANGED <<vin, parserVars, wizardVars, tfvarsVars, auditVars>>

CallValidateTagKey ==
    /\ vout' = [fn |-> "validate_tag_key", result |-> validate_tag_key(vin)]
    /\ UNCHANGED <<vin, parserVars, wizardVars, tfvarsVars, auditVars>>

ValidatorNext ==
    \/ CallValidateRegion
    \/ CallValidateEnvironment
    \/ CallValidateTagKey

SpecValidators == ValidatorInit /\ [][ValidatorNext]_vars

-----------------------------------------------------------------------------
(* Claims about the validators.                                             *)

AllIn(s, from, to, class) == \A i \in from..to : s[i] \in class

\* Two lowercase letters, a hyphen, one or more lowercase letters, a hyphen,
\* one or more digits, and nothing else.  Any decimal digit counts.
IsRegionFormat(s) ==
    \E h \in 5..(Len(s) - 1) :
        /\ AllIn(s, 1, 2, LowerChars)
        /\ s[3] = "-"
        /\ AllIn(s, 4, h - 1, LowerChars)
        /\ s[h] = "-"
        /\ AllIn(s, h + 1, Len(s), UnicodeDigits)

\* A non-empty string of only letters, digits and hyphens.
IsEnvironmentFormat(s) == Len(s) > 0 /\ AllIn(s, 1, Len(s), EnvChars)

\* C10: validate_region returns True exactly on strings of the region format
\* with nothing after the digits, validate_environment returns True exactly
\* on non-empty strings of letters, digits and hyphens, and both return
\* False on everything else, the empty string and non-strings included.
C10_ValidatorsAcceptExactlyTheFormat ==
    /\ vout.fn = "validate_region" =>
          (vout.result <=> (vin.t = "str" /\ IsRegionFormat(vin.v)))
    /\ vout.fn = "validate_environment" =>
          (vout.result <=> (vin.t = "str" /\ IsEnvironmentFormat(vin.v)))

-----------------------------------------------------------------------------
(* wizard/models.py: the module registry and WizardConfig.  A dict of tags  *)
(* is the sequence of its items in insertion order; its keys are distinct.  *)

AVAILABLE_MODULES ==
    <<[name |-> "cloudtrail", var_name |-> <<"e","n","a","b","l","e","_","c","l","o","u","d","t","r","a","i","l">>],
      [name |-> "config", var_name |-> <<"e","n","a","b","l","e","_","c","o","n","f","i","g">>],
      [name |-> "guardduty", var_name |-> <<"e","n","a","b","l","e","_","g","u","a","r","d","d","u","t","y">>],
      [name |-> "detective", var_name |-> <<"e","n","a","b","l","e","_","d","e","t","e","c","t","i","v","e">>],
      [name |-> "securityhub", var_name |-> <<"e","n","a","b","l","e","_","s","e","c","u","r","i","t","y","h","u","b">>],
      [name |-> "accessanalyzer", var_name |-> <<"e","n","a","b","l","e","_","a","c","c","e","s","s","a","n","a","l","y","z","e","r">>],
      [name |-> "inspector", var_name |-> <<"e","n","a","b","l","e","_","i","n","s","p","e","c","t","o","r">>],
      [name |-> "macie", var_name |-> <<"e","n","a","b","l","e","_","m","a","c","i","e">>]>>
ModuleNames == {AVAILABLE_MODULES[i].name : i \in 1..Len(AVAILABLE_MODULES)}

TextEnvironment == <<"E","n","v","i","r","o","n","m","e","n","t">>
TextManagedBy == <<"M","a","n","a","g","e","d","B","y">>
TextTerraform == <<"T","e","r","r","a","f","o","r","m">>

\* WizardConfig(): the dataclass defaults
NewWizardConfig ==
    [modules |-> EmptyMap, region |-> UsEast1, environment |-> Dev, tags |-> <<>>]

\* d[key] = value on a dict
DictSet(d, key, value) ==
    IF \E i \in 1..Len(d) : d[i].key = key
    THEN [i \in 1..Len(d) |->
             IF d[i].key = key THEN [key |-> key, value |-> value] ELSE d[i]]
    ELSE Append(d, [key |-> key, value |-> value])
DictKeys(d) == {d[i].key : i \in 1..Len(d)}
DictItems(d) == {d[i] : i \in 1..Len(d)}

-----------------------------------------------------------------------------
(* wizard/cli.py.  The command line is held option by option: whether       *)
(* --all-modules is given, the operand of --region and of --env if given,   *)
(* and the operands of the --tag occurrences in order.                      *)

ArgumentTypeError == [ok |-> FALSE]

\* Mutant: rpartition, the split is at the last '='.
parse_tag_rpartition(tag_string) ==
    LET eqs == {q \in 0..(Len(tag_string) - 1) : Ch(tag_string, q) = "="}
        eq == IF eqs = {} THEN -1 ELSE CHOOSE q \in eqs : \A r \in eqs : r <= q
    IN  IF eq < 0 THEN ArgumentTypeError
        ELSE LET key == Slice(tag_string, 0, eq)
                 value == Slice(tag_string, eq + 1, Len(tag_string))
             IN  IF Len(key) = 0 THEN ArgumentTypeError
                 ELSE [ok |-> TRUE, key |-> key, value |-> value]

parse_tag(tag_string) ==
    LET eq == FindChar(tag_string, 0, "=")
    IN  IF eq < 0 THEN ArgumentTypeError
        ELSE LET key == Slice(tag_string, 0, eq)
                 value == Slice(tag_string, eq + 1, Len(tag_string))
             IN  IF Len(key) = 0 THEN ArgumentTypeError
                 ELSE [ok |-> TRUE, key |-> key, value |-> value]

\* parse_tag called on its own, on every text of at most MaxTagLen
\* characters of TagAlphabet.
MaxTagLen == 4
TagAlphabet == {"k", "=", "-", " "}
TagTexts == UNION {[1..n -> TagAlphabet] : n \in 0..MaxTagLen}

ParseTagInit ==
    /\ vin \in {Str(s) : s \in TagTexts}
    /\ vout = NoCall
    /\ ParserIdle /\ WizardIdle /\ TfvarsIdle /\ AuditIdle

CallParseTag ==
    /\ vout' = [fn |-> "parse_tag", result |-> parse_tag(vin.v)]
    /\ UNCHANGED <<vin, parserVars, wizardVars, tfvarsVars, auditVars>>

SpecParseTag == ParseTagInit /\ [][CallParseTag]_vars

validate_region_arg(region) ==
    IF ~validate_region(Str(region)) THEN ArgumentTypeError
    ELSE [ok |-> TRUE, value |-> region]

validate_environment_arg(env) ==
    IF ~validate_environment(Str(env)) THEN ArgumentTypeError
    ELSE [ok |-> TRUE, value |-> env]

\* parse_args: argparse applies each option's type function to its operand;
\* an ArgumentTypeError makes it print the usage and raise SystemExit(2).
ArgsOk(av) ==
    /\ av.region.t = "str" => validate_region_arg(av.region.v).ok
    /\ av.env.t = "str" => validate_environment_arg(av.env.v).ok
    /\ \A i \in 1..Len(av.tag) : parse_tag(av.tag[i]).ok

PyList(items) == [t |-> "list", v |-> items]

parse_args(av) ==
    [all_modules |-> av.all_modules,
     region |-> av.region,
     env |-> av.env,
     tags |-> IF Len(av.tag) = 0 THEN PyNone
              ELSE PyList([i \in 1..Len(av.tag) |->
                              [key |-> parse_tag(av.tag[i]).key,
                               value |-> parse_tag(av.tag[i]).value]])]

\* Mutant: --tag alone does not count as a command-line argument.
has_cli_args_without_tags(a) ==
    \/ a.all_modules
    \/ a.region.t # "NoneType"
    \/ a.env.t # "NoneType"

has_cli_args(a) ==
    \/ a.all_modules
    \/ a.region.t # "NoneType"
    \/ a.env.t # "NoneType"
    \/ a.tags.t # "NoneType"

\* Mutant: a --tag never replaces an auto-included tag.
RECURSIVE TagsFoldKeepAuto(_, _, _)
TagsFoldKeepAuto(d, pairs, i) ==
    IF i > Len(pairs) THEN d
    ELSE TagsFoldKeepAuto(IF pairs[i].key \in {TextEnvironment, TextManagedBy} THEN d
                          ELSE DictSet(d, pairs[i].key, pairs[i].value),
                          pairs, i + 1)

\* Mutant: dict.setdefault in place of assignment, the first value is kept.
RECURSIVE TagsFoldSetDefault(_, _, _)
TagsFoldSetDefault(d, pairs, i) ==
    IF i > Len(pairs) THEN d
    ELSE TagsFoldSetDefault(IF pairs[i].key \in DictKeys(d) THEN d
                            ELSE DictSet(d, pairs[i].key, pairs[i].value),
                            pairs, i + 1)

\* "for key, value in args.tags: config.tags[key] = value"
RECURSIVE TagsFold(_, _, _)
TagsFold(d, pairs, i) ==
    IF i > Len(pairs) THEN d
    ELSE TagsFold(DictSet(d, pairs[i].key, pairs[i].value), pairs, i + 1)

\* Mutant: "elif args.env" in place of "if args.env".
build_config_from_args_elif(a) ==
    LET modules == IF a.all_modules THEN [n \in ModuleNames |-> TRUE] ELSE EmptyMap
        region == IF Truthy(a.region) THEN a.region.v ELSE NewWizardConfig.region
        environment == IF ~Truthy(a.region) /\ Truthy(a.env)
                       THEN a.env.v ELSE NewWizardConfig.environment
        auto == <<[key |-> TextEnvironment, value |-> environment],
                  [key |-> TextManagedBy, value |-> TextTerraform]>>
    IN  [modules |-> modules,
         region |-> region,
         environment |-> environment,
         tags |-> IF a.tags.t = "list" /\ Len(a.tags.v) > 0
                  THEN TagsFold(auto, a.tags.v, 1) ELSE auto]

\* Mutant: --all-modules is honoured only when no --tag is given.
build_config_from_args_tags_first(a) ==
    LET modules == IF a.all_modules /\ a.tags.t # "list"
                   THEN [n \in ModuleNames |-> TRUE] ELSE EmptyMap
        region == IF Truthy(a.region) THEN a.region.v ELSE NewWizardConfig.region
        environment == IF Truthy(a.env) THEN a.env.v ELSE NewWizardConfig.environment
        auto == <<[key |-> TextEnvironment, value |-> environment],
                  [key |-> TextManagedBy, value |-> TextTerraform]>>
    IN  [modules |-> modules,
         region |-> region,
         environment |-> environment,
         tags |-> IF a.tags.t = "list" /\ Len(a.tags.v) > 0
                  THEN TagsFold(auto, a.tags.v, 1) ELSE auto]

build_config_from_args(a) ==
    LET modules == IF a.all_modules THEN [n \in ModuleNames |-> TRUE] ELSE EmptyMap
        region == IF Truthy(a.region) THEN a.region.v ELSE NewWizardConfig.region
        environment == IF Truthy(a.env) THEN a.env.v ELSE NewWizardConfig.environment
        auto == <<[key |-> TextEnvironment, value |-> environment],
                  [key |-> TextManagedBy, value |-> TextTerraform]>>
    IN  [modules |-> modules,
         region |-> region,
         environment |-> environment,
         tags |-> IF a.tags.t = "list" /\ Len(a.tags.v) > 0
                  THEN TagsFold(auto, a.tags.v, 1) ELSE auto]

-----------------------------------------------------------------------------
(* wizard/prompts.py.  Prompt.ask and Confirm.ask return what the user      *)
(* typed: a line of text without its line break, or a yes/no.  Each         *)
(* operator is one pass through the function's prompt loop.                 *)

COMMON_REGIONS ==
    <<<<"u","s","-","e","a","s","t","-","1">>,
      <<"u","s","-","e","a","s","t","-","2">>,
      <<"u","s","-","w","e","s","t","-","1">>,
      <<"u","s","-","w","e","s","t","-","2">>,
      <<"e","u","-","w","e","s","t","-","1">>,
      <<"e","u","-","w","e","s","t","-","2">>,
      <<"e","u","-","c","e","n","t","r","a","l","-","1">>,
      <<"a","p","-","s","o","u","t","h","e","a","s","t","-","1">>,
      <<"a","p","-","s","o","u","t","h","e","a","s","t","-","2">>,
      <<"a","p","-","n","o","r","t","h","e","a","s","t","-","1">>>>
SUGGESTED_ENVIRONMENTS == <<Dev, <<"s","t","a","g","i","n","g">>, <<"p","r","o","d">>>>

DigitValue ==
    ("0" :> 0) @@ ("1" :> 1) @@ ("2" :> 2) @@ ("3" :> 3) @@ ("4" :> 4) @@
    ("5" :> 5) @@ ("6" :> 6) @@ ("7" :> 7) @@ ("8" :> 8) @@ ("9" :> 9) @@
    (ArabicThree :> 3)

RECURSIVE DigitsValue(_, _, _)
DigitsValue(d, i, acc) ==
    IF i > Len(d) THEN acc
    ELSE IF d[i] = "_" THEN DigitsValue(d, i + 1, acc)
    ELSE DigitsValue(d, i + 1, 10 * acc + DigitValue[d[i]])

ValueError == [ok |-> FALSE]

\* int(text): surrounding whitespace, an optional sign, decimal digits of
\* any script, single underscores between digits.
int(text) ==
    LET body == Strip(text)
        signed == Len(body) > 0 /\ body[1] \in {"+", "-"}
        d == IF signed THEN Slice(body, 1, Len(body)) ELSE body
        wellFormed ==
            /\ Len(d) > 0
            /\ \A i \in 1..Len(d) : d[i] \in UnicodeDigits \cup {"_"}
            /\ d[1] # "_" /\ d[Len(d)] # "_"
            /\ \A i \in 1..(Len(d) - 1) : ~(d[i] = "_" /\ d[i + 1] = "_")
    IN  IF ~wellFormed THEN ValueError
        ELSE [ok |-> TRUE,
              value |-> IF signed /\ body[1] = "-"
                        THEN 0 - DigitsValue(d, 1, 0) ELSE DigitsValue(d, 1, 0)]

Continue == [returned |-> FALSE]
Return(value) == [returned |-> TRUE, value |-> value]

select_modules(choice, answers) ==
    CASE choice \in {"A", "a"} -> [n \in ModuleNames |-> TRUE]
      [] choice \in {"N", "n"} -> [n \in ModuleNames |-> FALSE]
      [] OTHER -> answers

select_region(choice, custom_region) ==
    LET choice_num == int(choice)
    IN  IF choice_num.ok
        THEN IF 1 <= choice_num.value /\ choice_num.value <= Len(COMMON_REGIONS)
             THEN Return(COMMON_REGIONS[choice_num.value])
             ELSE IF choice_num.value = Len(COMMON_REGIONS) + 1
                  THEN IF validate_region(Str(custom_region))
                       THEN Return(custom_region) ELSE Continue
                  ELSE Continue
        ELSE IF validate_region(Str(choice)) THEN Return(choice) ELSE Continue

select_environment(choice) ==
    LET choice_num == int(choice)
    IN  IF choice_num.ok /\ 1 <= choice_num.value
           /\ choice_num.value <= Len(SUGGESTED_ENVIRONMENTS)
        THEN Return(SUGGESTED_ENVIRONMENTS[choice_num.value])
        ELSE IF validate_environment(Str(choice)) THEN Return(choice) ELSE Continue

\* configure_tags before its loop: the auto-included tags
AutoTags(environment) ==
    <<[key |-> TextEnvironment, value |-> environment],
      [key |-> TextManagedBy, value |-> TextTerraform]>>

\* Mutant: a key entered again keeps its first value.
configure_tags_setdefault(tags, key, value) ==
    IF Len(key) = 0 THEN Return(tags)
    ELSE IF ~validate_tag_key(Str(key)) THEN [returned |-> FALSE, tags |-> tags]
    ELSE [returned |-> FALSE,
          tags |-> IF key \in DictKeys(tags) THEN tags ELSE DictSet(tags, key, value)]

\* one pass of the loop of configure_tags
configure_tags(tags, key, value) ==
    IF Len(key) = 0 THEN Return(tags)
    ELSE IF ~validate_tag_key(Str(key)) THEN [returned |-> FALSE, tags |-> tags]
    ELSE [returned |-> FALSE, tags |-> DictSet(tags, key, value)]

\* What is typed at the prompts.
ModuleChoices == {"A", "N", "S", "a", "n", "s"}
IndividualAnswers ==
    {[n \in ModuleNames |-> TRUE], [n \in ModuleNames |-> FALSE],
     [n \in ModuleNames |-> n \in {"config", "guardduty", "inspector"}]}
RegionResponses ==
    {<<"1">>,
     <<"3">>,
     <<"1","1">>,
     <<"1","2">>,
     <<"0">>,
     <<"e","u","-","n","o","r","t","h","-","1">>,
     <<"b","o","g","u","s">>,
     <<"u","s","-","e","a","s","t","-",ArabicThree>>,
     <<ArabicThree>>,
     <<" ","2"," ">>,
     <<"1","_","0">>}
CustomRegionResponses == {<<"e","u","-","n","o","r","t","h","-","1">>, <<"n","o","p","e">>}
EnvironmentResponses ==
    {<<"1">>,
     <<"2">>,
     <<"3">>,
     <<"4">>,
     <<"d","e","v">>,
     <<"q","a","-","1">>,
     <<"m","y"," ","e","n","v">>,
     <<"p","r","o","d","_","x">>}
TagKeyResponses == {<<>>, <<" ">>, <<"O","w","n","e","r">>, TextEnvironment, <<" ", "k">>}
TagValueResponses == {<<>>, <<"m","e">>, <<"s","a","y"," ","\"","h","i","\"">>}

-----------------------------------------------------------------------------
(* wizard/main.py: main, run_non_interactive_mode, run_interactive_mode.    *)

\* The command lines main is run with.
MaxTagArgs == 2
\* and the number of entries typed at the tag prompts in one call
MaxTagEntries == 2
RegionOperands ==
    {<<"u","s","-","e","a","s","t","-","1">>,
     <<"u","s","-","e","a","s","t","-","1","\n">>,
     <<"e","u","-","w","e","s","t","-","2">>,
     <<"u","s","-","e","a","s","t","-",ArabicThree>>,
     <<"u","s","e","a","s","t","1">>,
     <<>>}
EnvOperands ==
    {<<"d","e","v","\n">>,
     <<"p","r","o","d","-","1">>,
     <<"m","y"," ","e","n","v">>,
     <<>>}
TagOperands ==
    {<<"O","w","n","e","r","=","m","e">>,
     <<" ","=","x">>,
     <<"=","x">>,
     <<"n","o","v","a","l","u","e">>,
     <<"E","n","v","i","r","o","n","m","e","n","t","=","q","a">>,
     <<"O","w","n","e","r","=","a","=","b">>,
     <<"M","a","n","a","g","e","d","B","y","=">>,
     <<"a","\n","b","=","v">>}
Argvs ==
    [all_modules : BOOLEAN,
     region : {PyNone} \cup {Str(s) : s \in RegionOperands},
     env : {PyNone} \cup {Str(s) : s \in EnvOperands},
     tag : UNION {[1..k -> TagOperands] : k \in 0..MaxTagArgs}]

NoSelection == [modules |-> EmptyMap, region |-> <<>>, environment |-> <<>>, tags |-> <<>>]
NoOutcome == [success |-> "unset", raised |-> "none", escaped |-> FALSE]

WizardInit ==
    /\ wpc = "start"
    /\ argv \in Argvs
    /\ args = <<>>
    /\ sel = NoSelection
    /\ config = None
    /\ exitCode = -1
    /\ outcome = NoOutcome
    /\ typed = <<>>
    /\ restarted = FALSE
    /\ ParserIdle /\ ValidatorIdle /\ TfvarsIdle /\ AuditIdle

\* Mutant: main without its last clause, "except Exception".
main_except_named_only(raised) ==
    CASE raised = "KeyboardInterrupt" -> [escaped |-> FALSE, code |-> 130]
      [] raised = "SystemExit" -> [escaped |-> TRUE, code |-> 2]
      [] raised = "Exception" -> [escaped |-> TRUE, code |-> 1]
      [] OTHER -> [escaped |-> FALSE, code |-> 1]

\* The except clauses of main: what an exception raised inside the try block
\* becomes.  SystemExit is not an Exception: it passes through main and its
\* code is the exit status.
main_except(raised) ==
    CASE raised = "KeyboardInterrupt" -> [escaped |-> FALSE, code |-> 130]
      [] raised = "SystemExit" -> [escaped |-> TRUE, code |-> 2]
      [] OTHER -> [escaped |-> FALSE, code |-> 1]

\* main returns code
Exit(code) ==
    /\ wpc' = "exited"
    /\ exitCode' = code

\* a step of main raises
Raise(raised) ==
    /\ Exit(main_except(raised).code)
    /\ outcome' = [outcome EXCEPT !.raised = raised,
                                  !.escaped = main_except(raised).escaped]

CheckDependencies ==
    /\ wpc = "start"
    /\ \E found \in BOOLEAN :
          IF found THEN wpc' = "banner" /\ UNCHANGED <<exitCode, outcome>>
          ELSE Raise("DependencyError")
    /\ UNCHANGED <<argv, args, sel, config, typed, restarted,
                   parserVars, validatorVars, tfvarsVars, auditVars>>

DisplayBanner ==
    /\ wpc = "banner"
    /\ wpc' = "parse_args"
    /\ UNCHANGED <<argv, args, sel, config, exitCode, outcome, typed, restarted,
                   parserVars, validatorVars, tfvarsVars, auditVars>>

ParseArgs ==
    /\ wpc = "parse_args"
    /\ IF ArgsOk(argv)
       THEN /\ args' = parse_args(argv)
            /\ wpc' = "mode"
            /\ UNCHANGED <<exitCode, outcome>>
       ELSE /\ Raise("SystemExit")
            /\ UNCHANGED args
    /\ UNCHANGED <<argv, sel, config, typed, restarted, parserVars, validatorVars, tfvarsVars, auditVars>>

RunNonInteractiveMode ==
    /\ wpc = "mode"
    /\ has_cli_args(args)
    /\ config' = build_config_from_args(parse_args(argv))
    /\ wpc' = "generate"
    /\ UNCHANGED <<argv, args, sel, exitCode, outcome, typed, restarted,
                   parserVars, validatorVars, tfvarsVars, auditVars>>

RunInteractiveMode ==
    /\ wpc = "mode"
    /\ ~has_cli_args(args)
    /\ wpc' = "select_modules"
    /\ UNCHANGED <<argv, args, sel, config, exitCode, outcome, typed, restarted,
                   parserVars, validatorVars, tfvarsVars, auditVars>>

SelectModules ==
    /\ wpc = "select_modules"
    /\ \E choice \in ModuleChoices, answers \in IndividualAnswers :
          sel' = [NoSelection EXCEPT !.modules = select_modules(choice, answers)]
    /\ wpc' = "select_region"
    /\ UNCHANGED <<argv, args, config, exitCode, outcome, typed, restarted,
                   parserVars, validatorVars, tfvarsVars, auditVars>>

SelectRegion ==
    /\ wpc = "select_region"
    /\ \E choice \in RegionResponses, custom_region \in CustomRegionResponses :
          LET r == select_region(choice, custom_region)
          IN  IF r.returned
              THEN sel' = [sel EXCEPT !.region = r.value] /\ wpc' = "select_environment"
              ELSE UNCHANGED <<sel, wpc>>
    /\ UNCHANGED <<argv, args, config, exitCode, outcome, typed, restarted,
                   parserVars, validatorVars, tfvarsVars, auditVars>>

SelectEnvironment ==
    /\ wpc = "select_environment"
    /\ \E choice \in EnvironmentResponses :
          LET r == select_environment(choice)
          IN  IF r.returned
              THEN /\ sel' = [sel EXCEPT !.environment = r.value]
                   /\ wpc' = "configure_tags"
              ELSE UNCHANGED <<sel, wpc>>
    /\ UNCHANGED <<argv, args, config, exitCode, outcome, typed, restarted,
                   parserVars, validatorVars, tfvarsVars, auditVars>>

\* configure_tags up to its loop: the auto-included tags, then
\* "Would you like to add custom tags?"
ConfigureTags ==
    /\ wpc = "configure_tags"
    /\ sel' = [sel EXCEPT !.tags = AutoTags(sel.environment)]
    /\ typed' = <<>>
    /\ UNCHANGED restarted
    /\ \E add_custom \in BOOLEAN :
          wpc' = IF add_custom THEN "tag_entry" ELSE "display_summary"
    /\ UNCHANGED <<argv, args, config, exitCode, outcome,
                   parserVars, validatorVars, tfvarsVars, auditVars>>

\* One pass of the loop of configure_tags.  The value is asked for only
\* when the key is accepted.
TagEntry ==
    /\ wpc = "tag_entry"
    /\ \E key \in TagKeyResponses, value \in TagValueResponses :
          LET r == configure_tags(sel.tags, key, value)
              asked == validate_tag_key(Str(key))
          IN  /\ Len(key) > 0 => Len(typed) < MaxTagEntries
              /\ ~asked => value = <<>>
              /\ typed' = Append(typed, [key |-> key, value |-> value])
              /\ UNCHANGED restarted
              /\ IF r.returned
                 THEN wpc' = "display_summary" /\ UNCHANGED sel
                 ELSE wpc' = "tag_entry" /\ sel' = [sel EXCEPT !.tags = r.tags]
    /\ UNCHANGED <<argv, args, config, exitCode, outcome,
                   parserVars, validatorVars, tfvarsVars, auditVars>>

\* Mutant: after a rejection the module selection is kept and the loop
\* resumes at the region.
DisplaySummaryKeepsModules ==
    /\ wpc = "display_summary"
    /\ \E confirmed \in BOOLEAN :
          IF confirmed
          THEN /\ config' = [modules |-> sel.modules, region |-> sel.region,
                             environment |-> sel.environment, tags |-> sel.tags]
               /\ wpc' = "generate"
               /\ UNCHANGED <<sel, restarted>>
          ELSE /\ wpc' = "select_region"
               /\ sel' = [NoSelection EXCEPT !.modules = sel.modules]
               /\ restarted' = TRUE
               /\ UNCHANGED config
    /\ typed' = <<>>
    /\ UNCHANGED <<argv, args, exitCode, outcome,
                   parserVars, validatorVars, tfvarsVars, auditVars>>

\* WizardConfig(...) and display_summary: confirmed, and run_interactive_mode
\* returns the configuration, or the loop restarts.  No path of the function
\* returns None, so main's test "config is None" is never true.
DisplaySummary ==
    /\ wpc = "display_summary"
    /\ \E confirmed \in BOOLEAN :
          IF confirmed
          THEN /\ config' = [modules |-> sel.modules, region |-> sel.region,
                             environment |-> sel.environment, tags |-> sel.tags]
               /\ wpc' = "generate"
               /\ UNCHANGED <<sel, restarted>>
          ELSE /\ wpc' = "select_modules"
               /\ sel' = NoSelection
               /\ restarted' = TRUE
               /\ UNCHANGED config
    /\ typed' = <<>>
    /\ UNCHANGED <<argv, args, exitCode, outcome,
                   parserVars, validatorVars, tfvarsVars, auditVars>>

\* generate_tfvars(config, output_path, console) and what main does with
\* its result or its exception.
GenerateTfvars ==
    /\ wpc = "generate"
    /\ \E result \in {"True", "False", "FileGenerationError", "Exception"} :
          CASE result = "True" ->
                  /\ wpc' = "next_steps"
                  /\ outcome' = [outcome EXCEPT !.success = "True"]
                  /\ UNCHANGED exitCode
            [] result = "False" ->
                  /\ Exit(1)
                  /\ outcome' = [outcome EXCEPT !.success = "False"]
            [] OTHER -> Raise(result)
    /\ UNCHANGED <<argv, args, sel, config, typed, restarted,
                   parserVars, validatorVars, tfvarsVars, auditVars>>

DisplayNextSteps ==
    /\ wpc = "next_steps"
    /\ Exit(0)
    /\ UNCHANGED <<argv, args, sel, config, outcome, typed, restarted,
                   parserVars, validatorVars, tfvarsVars, auditVars>>

\* Ctrl-C anywhere inside main's try block
KeyboardInterrupt ==
    /\ wpc \notin {"idle", "exited"}
    /\ Raise("KeyboardInterrupt")
    /\ UNCHANGED <<argv, args, sel, config, typed, restarted,
                   parserVars, validatorVars, tfvarsVars, auditVars>>

\* Any step inside main's try block raises some other exception: a closed
\* input stream at a prompt, a failing console, an InvalidInputError.
StepRaises ==
    /\ wpc \notin {"idle", "exited"}
    /\ \E raised \in {"InvalidInputError", "FileGenerationError", "Exception"} :
          Raise(raised)
    /\ UNCHANGED <<argv, args, sel, config, typed, restarted,
                   parserVars, validatorVars, tfvarsVars, auditVars>>

WizardNext ==
    \/ CheckDependencies
    \/ DisplayBanner
    \/ ParseArgs
    \/ RunNonInteractiveMode
    \/ RunInteractiveMode
    \/ SelectModules
    \/ SelectRegion
    \/ SelectEnvironment
    \/ ConfigureTags
    \/ TagEntry
    \/ DisplaySummary
    \/ GenerateTfvars
    \/ DisplayNextSteps
    \/ KeyboardInterrupt
    \/ StepRaises

SpecWizard == WizardInit /\ [][WizardNext]_vars

-----------------------------------------------------------------------------
(* Claims about the WizardConfig the generator is given.                    *)

\* ^[a-z]{2}-[a-z]+-[0-9]+$ as a full match
FullMatchRegion(s) ==
    \E h \in 5..(Len(s) - 1) :
        /\ AllIn(s, 1, 2, LowerChars)
        /\ s[3] = "-"
        /\ AllIn(s, 4, h - 1, LowerChars)
        /\ s[h] = "-"
        /\ AllIn(s, h + 1, Len(s), DigitChars)

RoundTripPrecondition(c) ==
    /\ FullMatchRegion(c.region)
    /\ IsEnvironmentFormat(c.environment)
    /\ \A k \in DictKeys(c.tags) : Len(Strip(k)) > 0

\* C9: every WizardConfig that reaches the generator, from the prompts or
\* from the command line, has a region and an environment that fully match
\* their patterns and only tag keys that are non-empty after trimming.
C9_ConfigMeetsRoundTripPrecondition ==
    wpc = "generate" => RoundTripPrecondition(config)

\* the Exception subclasses main's except clauses catch
Exceptions == {"DependencyError", "InvalidInputError", "FileGenerationError", "Exception"}

BuiltFromArgs == wpc = "generate" /\ has_cli_args(args)

\* C12: the built configuration's region is the --region operand when one
\* is given and "us-east-1" otherwise, its environment is the --env operand
\* when one is given and "dev" otherwise, whatever the other option is.
C12_RegionAndEnvironmentFromTheirOptions ==
    BuiltFromArgs =>
        /\ config.region = IF argv.region.t = "str" THEN argv.region.v ELSE UsEast1
        /\ config.environment = IF argv.env.t = "str" THEN argv.env.v ELSE Dev

\* --region and --env both given, each with a value other than its default
C12_Witness ==
    /\ BuiltFromArgs
    /\ argv.region.t = "str" /\ argv.region.v # UsEast1
    /\ argv.env.t = "str" /\ argv.env.v # Dev
    /\ config.region = argv.region.v
    /\ config.environment = argv.env.v

\* C13: with --all-modules the modules map has exactly the eight registry
\* names as keys and every value is True, whatever the other options are.
C13_AllModulesEnablesTheRegistry ==
    (BuiltFromArgs /\ argv.all_modules) =>
        /\ DOMAIN config.modules = ModuleNames
        /\ \A n \in ModuleNames : config.modules[n] = TRUE

\* --all-modules together with --region, --env and --tag
C13_Witness ==
    /\ BuiltFromArgs /\ argv.all_modules
    /\ argv.region.t = "str" /\ argv.env.t = "str" /\ Len(argv.tag) > 0
    /\ Cardinality(DOMAIN config.modules) = 8

\* d[key] of a dict that holds key
TagValue(d, key) == d[CHOOSE i \in 1..Len(d) : d[i].key = key].value
\* the --tag occurrences whose key is key, and the value of the last of them
TagArgsWith(key) == {i \in 1..Len(argv.tag) : parse_tag(argv.tag[i]).key = key}
LastTagArg(key) ==
    parse_tag(argv.tag[CHOOSE i \in TagArgsWith(key) :
                           \A j \in TagArgsWith(key) : j <= i]).value

\* C14 as stated: the Environment tag is the environment and the ManagedBy
\* tag is "Terraform" for every combination of options, any --tag included.
C14_AutoTagsAlwaysKeepTheirValues ==
    BuiltFromArgs =>
        /\ TagValue(config.tags, TextEnvironment) = config.environment
        /\ TagValue(config.tags, TextManagedBy) = TextTerraform

\* C14: every built configuration has the tags Environment and ManagedBy;
\* Environment is the configuration's environment and ManagedBy is
\* "Terraform" unless a --tag with that key is given, and then the tag has
\* the value of the last --tag with that key.
C14_AutoTagsUnlessGivenAsTag ==
    BuiltFromArgs =>
        /\ {TextEnvironment, TextManagedBy} \subseteq DictKeys(config.tags)
        /\ TagValue(config.tags, TextEnvironment) =
              IF TagArgsWith(TextEnvironment) = {} THEN config.environment
              ELSE LastTagArg(TextEnvironment)
        /\ TagValue(config.tags, TextManagedBy) =
              IF TagArgsWith(TextManagedBy) = {} THEN TextTerraform
              ELSE LastTagArg(TextManagedBy)

\* --env with a --tag Environment=...: the tag has the --tag's value,
\* ManagedBy, which no --tag names, is "Terraform"
C14_Witness ==
    /\ BuiltFromArgs
    /\ argv.env.t = "str"
    /\ TagArgsWith(TextEnvironment) # {} /\ TagArgsWith(TextManagedBy) = {}
    /\ TagValue(config.tags, TextEnvironment) = LastTagArg(TextEnvironment)
    /\ TagValue(config.tags, TextEnvironment) # config.environment
    /\ TagValue(config.tags, TextManagedBy) = TextTerraform

\* the keys C15 speaks of: not blank, not starting with '-'
PlainTagKey(key) == validate_tag_key(Str(key)) /\ key[1] # "-"

\* C15 as stated: every --tag KEY=VALUE given is found in the tags.
C15_EveryTagArgIsStored ==
    BuiltFromArgs =>
        \A i \in 1..Len(argv.tag) :
            PlainTagKey(parse_tag(argv.tag[i]).key) =>
                TagValue(config.tags, parse_tag(argv.tag[i]).key)
                    = parse_tag(argv.tag[i]).value

\* C15: for every --tag KEY=VALUE given, tags[KEY] is the VALUE of the last
\* --tag with that KEY.
C15_LastTagArgIsStored ==
    BuiltFromArgs =>
        \A i \in 1..Len(argv.tag) :
            PlainTagKey(parse_tag(argv.tag[i]).key) =>
                TagValue(config.tags, parse_tag(argv.tag[i]).key)
                    = LastTagArg(parse_tag(argv.tag[i]).key)

\* two --tag with the key Owner and different values
C15_Witness ==
    /\ BuiltFromArgs
    /\ Len(argv.tag) = 2
    /\ parse_tag(argv.tag[1]).key = parse_tag(argv.tag[2]).key
    /\ parse_tag(argv.tag[1]).value # parse_tag(argv.tag[2]).value
    /\ PlainTagKey(parse_tag(argv.tag[2]).key)
    /\ TagValue(config.tags, parse_tag(argv.tag[2]).key) = parse_tag(argv.tag[2]).value

\* configure_tags has returned: sel.tags is its result, typed the entries
\* made at its prompts
TagsConfigured == wpc = "display_summary"
\* the entries whose key was accepted, those with a given key, and the value
\* entered last for a key
Accepted == {i \in 1..Len(typed) : validate_tag_key(Str(typed[i].key))}
AcceptedWith(key) == {i \in Accepted : typed[i].key = key}
LastEntered(key) ==
    typed[CHOOSE i \in AcceptedWith(key) : \A j \in AcceptedWith(key) : j <= i].value
\* an empty key ends the entry; a whitespace-only key is not recorded
EntryEndsAndRejects ==
    /\ \A i \in 1..Len(typed) :
          typed[i].key = <<>> => (i = Len(typed) /\ wpc # "tag_entry")
    /\ TagsConfigured =>
          \A i \in 1..Len(typed) : i \notin Accepted => typed[i].key \notin DictKeys(sel.tags)

C19_SummaryEndsWithConfigOrNone ==
    [][(wpc = "display_summary" /\ outcome'.raised = "none") =>
          \/ (wpc' = "generate" /\ config' # None)
          \/ (wpc' = "exited" /\ exitCode' = 1 /\ config' = None
                /\ outcome'.success = "unset")]_vars

-----------------------------------------------------------------------------
(* wizard/generator.py: generate_tfvars_content and parse_tfvars_content,   *)
(* as the specification describes them (section 4.3) and in the line        *)
(* shapes the tests of test_generator.py show.                              *)

WordChars == LowerChars \cup UpperChars \cup DigitChars \cup {"_"}
Backslash == "\\"

RECURSIVE Join(_, _)
\* "\n".join(lines[i..])
Join(lines, i) ==
    IF i > Len(lines) THEN <<>>
    ELSE IF i = Len(lines) THEN lines[i]
    ELSE lines[i] \o <<Newline>> \o Join(lines, i + 1)

RECURSIVE Split(_, _)
\* text[p:].split("\n")
Split(text, p) ==
    LET q == FindChar(text, p, Newline)
    IN  IF q < 0 THEN <<Slice(text, p, Len(text))>>
        ELSE <<Slice(text, p, q)>> \o Split(text, q + 1)

RECURSIVE escape_nothing(_, _)
\* Mutant: the value is written as it is.
escape_nothing(value, i) ==
    IF i > Len(value) THEN <<>>
    ELSE <<value[i]>> \o escape_nothing(value, i + 1)

RECURSIVE escape(_, _)
\* every double quote of value[i..] gets a backslash before it
escape(value, i) ==
    IF i > Len(value) THEN <<>>
    ELSE IF value[i] = Quote THEN <<Backslash, Quote>> \o escape(value, i + 1)
    ELSE <<value[i]>> \o escape(value, i + 1)

RECURSIVE unescape(_, _)
\* every backslash-quote pair of value[i..] becomes a double quote
unescape(value, i) ==
    IF i > Len(value) THEN <<>>
    ELSE IF i < Len(value) /\ value[i] = Backslash /\ value[i + 1] = Quote
    THEN <<Quote>> \o unescape(value, i + 2)
    ELSE <<value[i]>> \o unescape(value, i + 1)

KwAwsRegion == <<"a","w","s","_","r","e","g","i","o","n">>
KwEnvironment == <<"e","n","v","i","r","o","n","m","e","n","t">>
KwCommonTags == <<"c","o","m","m","o","n","_","t","a","g","s">>
KwTrue == <<"t","r","u","e">>
KwFalse == <<"f","a","l","s","e">>

\* Mutant: a module missing from the map counts as enabled.
ModuleEnabledByDefault(modules, name) ==
    IF name \in DOMAIN modules THEN modules[name] ELSE TRUE

\* c.modules.get(name, False)
ModuleEnabled(modules, name) == IF name \in DOMAIN modules THEN modules[name] ELSE FALSE

ModuleLine(c, m) ==
    m.var_name \o <<" ", "=", " ">> \o (IF ModuleEnabled(c.modules, m.name) THEN KwTrue ELSE KwFalse)
TagLine(item) ==
    <<" ", " ", Quote>> \o item.key \o <<Quote, " ", "=", " ", Quote>>
        \o escape(item.value, 1) \o <<Quote>>

generate_tfvars_content(c) ==
    Join(<<KwAwsRegion \o <<" ", " ", "=", " ", Quote>> \o c.region \o <<Quote>>,
           KwEnvironment \o <<" ", "=", " ", Quote>> \o c.environment \o <<Quote>>>>
         \o [i \in 1..Len(AVAILABLE_MODULES) |-> ModuleLine(c, AVAILABLE_MODULES[i])]
         \o <<KwCommonTags \o <<" ", "=", " ", "{">>>>
         \o [i \in 1..Len(c.tags) |-> TagLine(c.tags[i])]
         \o <<<<"}">>, <<>>>>, 1)

\* ^\s*(\w+)\s*=\s*  at the start of a line
MatchAssignment(line) ==
    LET a == SkipSpace(line, 0)
        b == SkipClass(line, a, WordChars)
        c == SkipSpace(line, b)
    IN  IF b > a /\ InClass(line, c, {"="})
        THEN [ok |-> TRUE, key |-> Slice(line, a, b), rest |-> SkipSpace(line, c + 1)]
        ELSE NoMatch

\* "(.*)"\s*$  from position p: the text between the quote at p and the
\* last quote of the line
MatchQuotedToEnd(line, p) ==
    LET e == SkipSpaceBack(line, Len(line))
    IN  IF InClass(line, p, {Quote}) /\ e - 1 > p /\ Ch(line, e - 1) = Quote
        THEN [ok |-> TRUE, value |-> Slice(line, p + 1, e - 1)]
        ELSE NoMatch

\* ^\s*"([^"]+)"\s*=\s*"(.*)"\s*$
MatchTagLine(line) ==
    LET a == SkipSpace(line, 0)
        q == IF InClass(line, a, {Quote}) THEN FindChar(line, a + 1, Quote) ELSE -1
        c == SkipSpace(line, q + 1)
    IN  IF q > a + 1 /\ InClass(line, c, {"="})
        THEN LET v == MatchQuotedToEnd(line, SkipSpace(line, c + 1))
             IN  IF v.ok THEN [ok |-> TRUE, key |-> Slice(line, a + 1, q),
                                value |-> unescape(v.value, 1)]
                 ELSE NoMatch
        ELSE NoMatch

\* the feature a flag name stands for, or None
FeatureOf(flag) ==
    IF \E i \in 1..Len(AVAILABLE_MODULES) : AVAILABLE_MODULES[i].var_name = flag
    THEN [ok |-> TRUE,
          name |-> AVAILABLE_MODULES[
                      CHOOSE i \in 1..Len(AVAILABLE_MODULES) :
                          AVAILABLE_MODULES[i].var_name = flag].name]
    ELSE NoMatch

\* One line in state SCANNING.
ScanLine(c, line) ==
    LET m == MatchAssignment(line)
        rest == IF m.ok THEN Strip(Slice(line, m.rest, Len(line))) ELSE <<>>
        quoted == IF m.ok THEN MatchQuotedToEnd(line, m.rest) ELSE NoMatch
    IN  IF ~m.ok THEN [state |-> "SCANNING", config |-> c]
        ELSE IF m.key = KwCommonTags /\ rest = <<"{">>
        THEN [state |-> "IN_TAG_BLOCK", config |-> c]
        ELSE IF quoted.ok /\ m.key = KwAwsRegion
        THEN [state |-> "SCANNING",
              config |-> [c EXCEPT !.region = unescape(quoted.value, 1)]]
        ELSE IF quoted.ok /\ m.key = KwEnvironment
        THEN [state |-> "SCANNING",
              config |-> [c EXCEPT !.environment = unescape(quoted.value, 1)]]
        ELSE IF rest \in {KwTrue, KwFalse} /\ FeatureOf(m.key).ok
        THEN [state |-> "SCANNING",
              config |-> [c EXCEPT !.modules =
                             MapPut(@, FeatureOf(m.key).name, rest = KwTrue)]]
        ELSE [state |-> "SCANNING", config |-> c]

\* Mutant: a line of the tag block that is no tag line is read as a line
\* outside the block, and the block goes on.
TagBlockLineElseScan(c, line) ==
    LET m == MatchTagLine(line)
    IN  IF Strip(line) = <<"}">> THEN [state |-> "SCANNING", config |-> c]
        ELSE IF m.ok
        THEN [state |-> "IN_TAG_BLOCK",
              config |-> [c EXCEPT !.tags = DictSet(@, m.key, m.value)]]
        ELSE [state |-> "IN_TAG_BLOCK", config |-> ScanLine(c, line).config]

\* Mutant: a line of the tag block that is no tag line ends the block.
TagBlockLineElseLeave(c, line) ==
    LET m == MatchTagLine(line)
    IN  IF m.ok
        THEN [state |-> "IN_TAG_BLOCK",
              config |-> [c EXCEPT !.tags = DictSet(@, m.key, m.value)]]
        ELSE [state |-> "SCANNING", config |-> c]

\* One line in state IN_TAG_BLOCK.
TagBlockLine(c, line) ==
    LET m == MatchTagLine(line)
    IN  IF Strip(line) = <<"}">> THEN [state |-> "SCANNING", config |-> c]
        ELSE IF m.ok
        THEN [state |-> "IN_TAG_BLOCK",
              config |-> [c EXCEPT !.tags = DictSet(@, m.key, m.value)]]
        ELSE [state |-> "IN_TAG_BLOCK", config |-> c]

\* The WizardConfigs the generator is given.
MaxTags == 2
ModuleMaps ==
    {EmptyMap,
     [n \in {"config", "macie"} |-> n = "macie"],
     [n \in ModuleNames |-> TRUE],
     [n \in ModuleNames |-> n \in {"cloudtrail", "guardduty", "securityhub", "inspector"}]}
Settings ==
    {[region |-> UsEast1, environment |-> <<"P","r","o","d","-","1">>],
     [region |-> UsEast1 \o <<Newline>>, environment |-> Dev \o <<Newline>>]}
TagKeys ==
    {KwAwsRegion,
     <<"a","\n","b">>,
     <<"e","n","a","b","l","e","_","m","a","c","i","e">>}
TagValues ==
    {<<"s","a","y"," ","\"","h","i","\"">>,
     <<"x","\n","e","n","a","b","l","e","_","m","a","c","i","e"," ","="," ","t","r","u","e","\n","y">>,
     <<"a","\\","\"","b">>,
     <<"C",":","\\">>}
TagItems == [key : TagKeys, value : TagValues]
TagDicts ==
    {d \in UNION {[1..k -> TagItems] : k \in 0..MaxTags} :
        \A i, j \in 1..Len(d) : i # j => d[i].key # d[j].key}
TfvarsConfigs ==
    {[modules |-> m, region |-> s.region, environment |-> s.environment, tags |-> d] :
        m \in ModuleMaps, s \in Settings, d \in TagDicts}

TfvarsInit ==
    /\ tcfg \in TfvarsConfigs
    /\ ttext = <<>>
    /\ tlines = <<>>
    /\ tpos = 0
    /\ tstate = "start"
    /\ tparsed = NewWizardConfig
    /\ ParserIdle /\ ValidatorIdle /\ WizardIdle /\ AuditIdle

Generate ==
    /\ tstate = "start"
    /\ ttext' = generate_tfvars_content(tcfg)
    /\ tstate' = "generated"
    /\ UNCHANGED <<tcfg, tlines, tpos, tparsed, parserVars, validatorVars, wizardVars, auditVars>>

\* parse_tfvars_content up to its loop over the lines
ParseBegin ==
    /\ tstate = "generated"
    /\ tlines' = Split(ttext, 0)
    /\ tpos' = 0
    /\ tparsed' = NewWizardConfig
    /\ tstate' = "SCANNING"
    /\ UNCHANGED <<tcfg, ttext, parserVars, validatorVars, wizardVars, auditVars>>

ParseLine ==
    /\ tstate \in {"SCANNING", "IN_TAG_BLOCK"}
    /\ tpos < Len(tlines)
    /\ LET r == IF tstate = "SCANNING" THEN ScanLine(tparsed, tlines[tpos + 1])
                ELSE TagBlockLine(tparsed, tlines[tpos + 1])
       IN  tstate' = r.state /\ tparsed' = r.config
    /\ tpos' = tpos + 1
    /\ UNCHANGED <<tcfg, ttext, tlines, parserVars, validatorVars, wizardVars, auditVars>>

ParseEnd ==
    /\ tstate \in {"SCANNING", "IN_TAG_BLOCK"}
    /\ tpos = Len(tlines)
    /\ tstate' = "DONE"
    /\ UNCHANGED <<tcfg, ttext, tlines, tpos, tparsed,
                   parserVars, validatorVars, wizardVars, auditVars>>

TfvarsNext ==
    \/ Generate
    \/ ParseBegin
    \/ ParseLine
    \/ ParseEnd

SpecTfvars == TfvarsInit /\ [][TfvarsNext]_vars

\* parse_tfvars_content on a text at hand: a generated text, whole or cut
\* short before the closing line of its tag block.
Unclosed(text) == SubSeq(text, 1, Len(text) - 3)

ParseInit ==
    /\ tcfg \in {c \in TfvarsConfigs : c.modules = EmptyMap /\ c.region = UsEast1}
    /\ ttext \in {generate_tfvars_content(tcfg), Unclosed(generate_tfvars_content(tcfg))}
    /\ tlines = <<>>
    /\ tpos = 0
    /\ tstate = "generated"
    /\ tparsed = NewWizardConfig
    /\ ParserIdle /\ ValidatorIdle /\ WizardIdle /\ AuditIdle

ParseNext ==
    \/ ParseBegin
    \/ ParseLine
    \/ ParseEnd

\* Once the function has begun, the interpreter goes on executing it until
\* it returns: the loop takes its next line while there is one, and the
\* function returns after the last.  ParseLine and ParseEnd are the only
\* actions that change tpos or tstate under these guards, so fairness is
\* stated on their guards and on the variable each one advances.
LoopAdvances ==
    /\ tstate \in {"SCANNING", "IN_TAG_BLOCK"}
    /\ tpos < Len(tlines)
    /\ tpos' = tpos + 1

LoopReturns ==
    /\ tstate \in {"SCANNING", "IN_TAG_BLOCK"}
    /\ tpos = Len(tlines)
    /\ tstate' = "DONE"

SpecTfvarsParse ==
    ParseInit /\ [][ParseNext]_vars /\ WF_tpos(LoopAdvances) /\ WF_tstate(LoopReturns)

-----------------------------------------------------------------------------
(* Claims about the generator and its parser.                               *)

HasNewline(s) == \E i \in 1..Len(s) : s[i] = Newline

\* the four fields compared
SameConfig(a, b) ==
    /\ a.region = b.region
    /\ a.environment = b.environment
    /\ \A n \in ModuleNames :
          ModuleEnabled(a.modules, n) = ModuleEnabled(b.modules, n)
    /\ DictItems(a.tags) = DictItems(b.tags)

ValidatedInput(c) ==
    /\ RoundTripPrecondition(c)
    /\ \A i \in 1..Len(c.tags) : ~HasNewline(c.tags[i].value)

\* C1: a config whose region and environment match their patterns, whose tag
\* keys are non-empty after trimming and whose tag values hold no newline is
\* what parsing its generated text gives back, in all four fields.
C1_RoundTrip ==
    (tstate = "DONE" /\ ValidatedInput(tcfg)) => SameConfig(tparsed, tcfg)

NoLineBreaks(c) ==
    /\ ~HasNewline(c.region)
    /\ ~HasNewline(c.environment)
    /\ \A i \in 1..Len(c.tags) : ~HasNewline(c.tags[i].key) /\ ~HasNewline(c.tags[i].value)

\* the lines of the text that read "<flag> = <literal>"
BooleanLines(text, flag, literal) ==
    LET lines == Split(text, 0)
    IN  {i \in 1..Len(lines) : lines[i] = flag \o <<" ", "=", " ">> \o literal}

OneBooleanLinePerModule(c, text) ==
    \A i \in 1..Len(AVAILABLE_MODULES) :
        LET m == AVAILABLE_MODULES[i]
            on == BooleanLines(text, m.var_name, KwTrue)
            off == BooleanLines(text, m.var_name, KwFalse)
            enabled == m.name \in DOMAIN c.modules /\ c.modules[m.name]
        IN  /\ Cardinality(on) + Cardinality(off) = 1
            /\ (Cardinality(on) = 1) <=> enabled

\* C2 as stated: for every WizardConfig, the generated text has, for each of
\* the 8 registry modules, exactly one line "<var_name> = true|false", and
\* it says true iff the modules map holds True for the module.
C2_OneBooleanLinePerModule ==
    tstate = "generated" => OneBooleanLinePerModule(tcfg, ttext)

\* C2 as amended: the same, for every WizardConfig whose region,
\* environment, tag keys and tag values hold no line break.
C2_OneBooleanLinePerModuleNoLineBreaks ==
    (tstate = "generated" /\ NoLineBreaks(tcfg)) => OneBooleanLinePerModule(tcfg, ttext)

\* A text was generated for a config without line breaks whose modules map
\* names only some of the modules, and for one whose map is empty.
C2_Witness ==
    /\ tstate = "generated"
    /\ NoLineBreaks(tcfg)
    /\ Len(tcfg.tags) = MaxTags
    /\ DOMAIN tcfg.modules = {"config", "macie"}
    /\ BooleanLines(ttext, AVAILABLE_MODULES[1].var_name, KwFalse) # {}
    /\ BooleanLines(ttext, AVAILABLE_MODULES[8].var_name, KwTrue) # {}

CarriageReturn == "\r"
\* tag keys as the round-trip tests draw them, letters, digits and '_', and
\* tag values without newline and carriage return
PlainTags(c) ==
    \A i \in 1..Len(c.tags) :
        /\ Len(c.tags[i].key) > 0
        /\ \A j \in 1..Len(c.tags[i].key) : c.tags[i].key[j] \in WordChars
        /\ \A j \in 1..Len(c.tags[i].value) :
              c.tags[i].value[j] \notin {Newline, CarriageReturn}

\* C20: the tag map of a config whose tag values hold no newline and no
\* carriage return is what parsing the generated text gives back, also for
\* values with backslashes, a backslash before a double quote or a
\* trailing backslash.
C20_TagsSurviveRoundTrip ==
    (tstate = "DONE" /\ PlainTags(tcfg)) =>
        /\ DictItems(tparsed.tags) = DictItems(tcfg.tags)
        /\ Len(tparsed.tags) = Len(tcfg.tags)

\* a value with a backslash before a double quote and a value that ends in
\* a backslash have made the round trip
C20_Witness ==
    /\ tstate = "DONE"
    /\ PlainTags(tcfg)
    /\ Len(tcfg.tags) = 2
    /\ \E i, j \in 1..2 :
          /\ \E k \in 1..(Len(tcfg.tags[i].value) - 1) :
                tcfg.tags[i].value[k] = Backslash /\ tcfg.tags[i].value[k + 1] = Quote
          /\ tcfg.tags[j].value[Len(tcfg.tags[j].value)] = Backslash
    /\ DictItems(tparsed.tags) = DictItems(tcfg.tags)

\* the line the parser reads in this step
CurrentLine == tlines[tpos + 1]
ReadsLine == tstate \in {"SCANNING", "IN_TAG_BLOCK"} /\ tpos < Len(tlines) /\ tpos' = tpos + 1
OpeningLine == KwCommonTags \o <<" ", "=", " ", "{">>
\* a line "key" = "value" with a word as key, as the generator writes a tag
TagLineWithKey(line, key) ==
    /\ Len(line) >= Len(key) + 8
    /\ SubSeq(line, 1, Len(key) + 7) = <<" ", " ", Quote>> \o key \o <<Quote, " ", "=", " ">>
    /\ line[Len(key) + 8] = Quote
    /\ line[Len(line)] = Quote

\* C26: in the tag block a line changes nothing but the tag map, and a tag
\* line whose key is aws_region or a module flag name is stored as a tag;
\* a line outside the tag block leaves the tag map as it is.
C26_TagBlockLinesGoToTagsOnly ==
    [][ReadsLine =>
          /\ tstate = "IN_TAG_BLOCK" =>
                /\ tparsed'.region = tparsed.region
                /\ tparsed'.environment = tparsed.environment
                /\ tparsed'.modules = tparsed.modules
                /\ \A key \in {KwAwsRegion, AVAILABLE_MODULES[8].var_name} :
                      TagLineWithKey(CurrentLine, key) => key \in DictKeys(tparsed'.tags)
          /\ tstate = "SCANNING" => tparsed'.tags = tparsed.tags]_vars

\* a tag named like a module flag and a tag named aws_region are in the tag
\* map, the module map is empty and the region is the one of the region line
C26_Witness ==
    /\ tstate = "DONE"
    /\ DictKeys(tparsed.tags) = {KwAwsRegion, AVAILABLE_MODULES[8].var_name}
    /\ tcfg.modules = EmptyMap
    /\ \A n \in DOMAIN tparsed.modules : ~tparsed.modules[n]
    /\ tparsed.region = tcfg.region
    /\ TagValue(tparsed.tags, KwAwsRegion) # tparsed.region

\* C27: the parser is one forward pass with three states: it starts in
\* SCANNING, enters IN_TAG_BLOCK only on the opening line of the map block,
\* leaves it only on the closing line or at the end of input, reads each
\* line once, and reaches DONE at the end of input from either state, also
\* when the tag block is never closed.
C27_ThreeStatesOnePass ==
    /\ [](tstate \in {"generated", "SCANNING", "IN_TAG_BLOCK", "DONE"})
    /\ [](tstate = "DONE" => tpos = Len(tlines))
    /\ [][/\ tstate = "generated" => tstate' = "SCANNING" /\ tpos' = 0
          /\ (tstate = "SCANNING" /\ tstate' = "IN_TAG_BLOCK") =>
                (ReadsLine /\ Strip(CurrentLine) = OpeningLine)
          /\ (tstate = "IN_TAG_BLOCK" /\ tstate' = "SCANNING") =>
                (ReadsLine /\ Strip(CurrentLine) = <<"}">>)
          /\ (tstate \in {"SCANNING", "IN_TAG_BLOCK"} /\ tstate' # "DONE") => ReadsLine
          /\ tstate' = "DONE" => (tpos = Len(tlines) /\ tpos' = tpos)
          /\ tstate = "DONE" => tstate' = "DONE"]_vars
    /\ (tstate = "SCANNING") ~> (tstate = "DONE")

\* the end of input was reached inside a tag block that was never closed
C27_Witness ==
    /\ tstate = "DONE"
    /\ ttext = Unclosed(generate_tfvars_content(tcfg))
    /\ Len(tparsed.tags) = MaxTags
    /\ tpos = Len(tlines)

\* at least one of --all-modules, --region, --env, --tag is on the command line
OptionGiven ==
    \/ argv.all_modules
    \/ argv.region.t # "NoneType"
    \/ argv.env.t # "NoneType"
    \/ Len(argv.tag) > 0

InteractiveSteps ==
    {"select_modules", "select_region", "select_environment", "configure_tags",
     "tag_entry", "display_summary"}

\* C28: main runs check_dependencies, display_banner, the mode selection,
\* generate_tfvars and display_next_steps in this order; the mode is
\* non-interactive exactly when an option is given; generate_tfvars is
\* called at most once and with a configuration; display_next_steps is
\* called only after generate_tfvars returned True; when check_dependencies
\* raises, neither the banner nor generate_tfvars follows.
C28_MainStepsInOrder ==
    /\ [](wpc = "start" => config = None /\ outcome = NoOutcome)
    /\ [][/\ wpc = "start" => wpc' \in {"banner", "exited"}
          /\ wpc' = "banner" => wpc = "start"
          /\ wpc' = "parse_args" => wpc = "banner"
          /\ wpc' = "mode" => wpc = "parse_args"
          /\ (wpc = "mode" /\ wpc' # "exited") =>
                wpc' = IF OptionGiven THEN "generate" ELSE "select_modules"
          /\ wpc' \in InteractiveSteps => wpc \in InteractiveSteps \cup {"mode"}
          /\ wpc' = "generate" =>
                /\ wpc \in {"mode", "display_summary"}
                /\ config' # None
                /\ outcome.success = "unset"
          /\ wpc = "generate" => wpc' \in {"next_steps", "exited"}
          /\ wpc' = "next_steps" => wpc = "generate" /\ outcome'.success = "True"
          /\ wpc = "next_steps" => wpc' = "exited"
          /\ wpc = "exited" => wpc' = "exited"
          /\ outcome'.success # outcome.success => wpc = "generate"]_vars

\* a run in interactive mode that went through every step and returned 0
C28_Witness ==
    /\ wpc = "exited"
    /\ exitCode = 0
    /\ ~OptionGiven
    /\ config # None
    /\ outcome.success = "True"

-----------------------------------------------------------------------------
(* audit/audit.py, class AuditReport.  A Finding is held by the two fields  *)
(* get_summary reads, module and severity; a module name is a text, and     *)
(* sorted() orders texts by the code points of their characters.            *)

Severity == {"critical", "high", "medium", "low"}

\* ord() of the characters of the module names used
Ord == [c \in {"K", "k", "m", "s"} |->
           CASE c = "K" -> 75 [] c = "k" -> 107 [] c = "m" -> 109 [] c = "s" -> 115]

\* a < b for two texts
StrLess(a, b) ==
    \E i \in 1..(Len(b)) :
        /\ \A j \in 1..(i - 1) : j <= Len(a) /\ a[j] = b[j]
        /\ \/ i = Len(a) + 1
           \/ (i <= Len(a) /\ Ord[a[i]] < Ord[b[i]])

\* sorted(list(modules))
RECURSIVE sorted(_)
sorted(S) ==
    IF S = {} THEN <<>>
    ELSE LET m == CHOOSE x \in S : \A y \in S \ {x} : StrLess(x, y)
         IN  <<m>> \o sorted(S \ {m})

\* AuditReport()
NewAuditReport == [findings |-> <<>>]

add_finding(self, finding) == [self EXCEPT !.findings = Append(self.findings, finding)]

\* the loop of get_summary: severity_counts and modules after the first i
\* findings
RECURSIVE TallyFindings(_, _, _, _)
TallyFindings(findings, i, severity_counts, modules) ==
    IF i > Len(findings)
    THEN [severity_counts |-> severity_counts, modules |-> modules]
    ELSE TallyFindings(findings, i + 1,
             [severity_counts EXCEPT ![findings[i].severity] = @ + 1],
             modules \cup {findings[i].module})

\* Mutant: the modules are collected in a list, in the order of the
\* findings, and not sorted.
get_summary_module_list(self) ==
    LET t == TallyFindings(self.findings, 1, [s \in Severity |-> 0], {})
    IN  [total_findings |-> Len(self.findings),
         critical |-> t.severity_counts["critical"],
         high |-> t.severity_counts["high"],
         medium |-> t.severity_counts["medium"],
         low |-> t.severity_counts["low"],
         modules_audited |-> [i \in 1..Len(self.findings) |-> self.findings[i].module]]

get_summary(self) ==
    LET t == TallyFindings(self.findings, 1, [s \in Severity |-> 0], {})
    IN  [total_findings |-> Len(self.findings),
         critical |-> t.severity_counts["critical"],
         high |-> t.severity_counts["high"],
         medium |-> t.severity_counts["medium"],
         low |-> t.severity_counts["low"],
         modules_audited |-> sorted(t.modules)]

get_findings_by_severity(self, severity) ==
    SelectSeq(self.findings, LAMBDA f : f.severity = severity)

\* Mutant: every finding of low effort is a quick win.
get_quick_wins_any_severity(self) ==
    SelectSeq(self.findings, LAMBDA f : f.effort = "low")

get_quick_wins(self) ==
    SelectSeq(self.findings,
              LAMBDA f : f.effort = "low" /\ f.severity \in {"high", "medium"})

\* At most MaxFindings findings are added to a report.
MaxFindings == 3
FindingModules == {<<"k","m","s">>, <<"k">>, <<"K","m","s">>}
Findings ==
    [module : FindingModules, severity : Severity, effort : {"low"}]
        \cup [module : {<<"k">>}, severity : Severity, effort : {"medium"}]

AuditInit ==
    /\ report = NewAuditReport
    /\ acall = [op |-> "__init__"]
    /\ ParserIdle /\ ValidatorIdle /\ WizardIdle /\ TfvarsIdle

AddFinding ==
    /\ Len(report.findings) < MaxFindings
    /\ \E finding \in Findings :
          /\ report' = add_finding(report, finding)
          /\ acall' = [op |-> "add_finding", before |-> report.findings]
    /\ UNCHANGED <<parserVars, validatorVars, wizardVars, tfvarsVars>>

\* get_summary reads self.findings and assigns to no attribute of self
GetSummary ==
    /\ acall' = [op |-> "get_summary", before |-> report.findings,
                 result |-> get_summary(report)]
    /\ UNCHANGED <<report, parserVars, validatorVars, wizardVars, tfvarsVars>>

GetFindingsBySeverity ==
    /\ \E severity \in Severity :
          acall' = [op |-> "get_findings_by_severity", before |-> report.findings,
                    severity |-> severity,
                    result |-> get_findings_by_severity(report, severity)]
    /\ UNCHANGED <<report, parserVars, validatorVars, wizardVars, tfvarsVars>>

GetQuickWins ==
    /\ acall' = [op |-> "get_quick_wins", before |-> report.findings,
                 result |-> get_quick_wins(report)]
    /\ UNCHANGED <<report, parserVars, validatorVars, wizardVars, tfvarsVars>>

AuditNext ==
    \/ AddFinding
    \/ GetSummary
    \/ GetFindingsBySeverity
    \/ GetQuickWins

SpecAudit == AuditInit /\ [][AuditNext]_vars

\* claims

\* the number of findings of a severity
CountOf(severity) ==
    Cardinality({i \in 1..Len(report.findings) : report.findings[i].severity = severity})

\* C18: the summary's total_findings is the number of findings added and
\* the sum of the four severity counts, each severity count is the number
\* of findings of that severity, modules_audited is the sorted list of
\* the distinct module names of the findings, and get_summary leaves the
\* findings list as it was.
C18_SummaryCountsTheFindings ==
    acall.op = "get_summary" =>
        LET s == acall.result
            m == s.modules_audited
        IN  /\ report.findings = acall.before
            /\ s.total_findings = Len(report.findings)
            /\ s.total_findings = s.critical + s.high + s.medium + s.low
            /\ s.critical = CountOf("critical")
            /\ s.high = CountOf("high")
            /\ s.medium = CountOf("medium")
            /\ s.low = CountOf("low")
            /\ {m[i] : i \in 1..Len(m)}
                  = {report.findings[i].module : i \in 1..Len(report.findings)}
            /\ \A i \in 1..(Len(m) - 1) : StrLess(m[i], m[i + 1])

\* three findings of two modules and two severities, summarised
C18_Witness ==
    /\ acall.op = "get_summary"
    /\ Len(report.findings) = 3
    /\ acall.result.total_findings = 3
    /\ acall.result.high = 2 /\ acall.result.low = 1
    /\ Len(acall.result.modules_audited) = 2

-----------------------------------------------------------------------------
(* audit/terraform_parser.py, _extract_block_content, one iteration of its  *)
(* loop at a time.  vin holds the two arguments, vout the local variables   *)
(* pos and brace_count and, after the return, the slice returned.           *)

\* the loop condition
scan_continues(content, pos, brace_count) ==
    pos < Len(content) /\ brace_count > 0

\* Mutant: pos is advanced past braces only.
scan_step_braces_only(content, pos, brace_count) ==
    CASE Ch(content, pos) = "{" -> [pos |-> pos + 1, brace_count |-> brace_count + 1]
      [] Ch(content, pos) = "}" -> [pos |-> pos + 1, brace_count |-> brace_count - 1]
      [] OTHER -> [pos |-> pos, brace_count |-> brace_count]

\* Mutant: an opening brace is not counted.
scan_step_flat(content, pos, brace_count) ==
    [pos |-> pos + 1,
     brace_count |-> IF Ch(content, pos) = "}" THEN brace_count - 1 ELSE brace_count]

\* the loop body
scan_step(content, pos, brace_count) ==
    [pos |-> pos + 1,
     brace_count |-> CASE Ch(content, pos) = "{" -> brace_count + 1
                       [] Ch(content, pos) = "}" -> brace_count - 1
                       [] OTHER -> brace_count]

\* Every text of at most MaxScanLen characters of ScanAlphabet, with every
\* start position in it.
MaxScanLen == 5
ScanAlphabet == {"{", "}", "a"}
ScanTexts == UNION {[1..n -> ScanAlphabet] : n \in 0..MaxScanLen}

\* brace_count = 1; pos = start_pos
ScanInit ==
    /\ vin \in {[content |-> c, start_pos |-> p] : c \in ScanTexts, p \in 0..MaxScanLen}
    /\ vin.start_pos <= Len(vin.content)
    /\ vout = [fn |-> "_extract_block_content", pc |-> "loop",
               pos |-> vin.start_pos, brace_count |-> 1]
    /\ ParserIdle /\ WizardIdle /\ TfvarsIdle /\ AuditIdle

ScanStep ==
    /\ vout.pc = "loop"
    /\ scan_continues(vin.content, vout.pos, vout.brace_count)
    /\ LET s == scan_step(vin.content, vout.pos, vout.brace_count)
       IN  vout' = [vout EXCEPT !.pos = s.pos, !.brace_count = s.brace_count]
    /\ UNCHANGED <<vin, parserVars, wizardVars, tfvarsVars, auditVars>>

\* return content[start_pos : pos - 1]
ScanReturn ==
    /\ vout.pc = "loop"
    /\ ~scan_continues(vin.content, vout.pos, vout.brace_count)
    /\ vout' = [fn |-> "_extract_block_content", pc |-> "returned",
                pos |-> vout.pos, brace_count |-> vout.brace_count,
                result |-> Slice(vin.content, vin.start_pos, vout.pos - 1)]
    /\ UNCHANGED <<vin, parserVars, wizardVars, tfvarsVars, auditVars>>

ScanNext ==
    \/ ScanStep
    \/ ScanReturn

SpecScan == ScanInit /\ [][ScanNext]_vars

\* The interpreter goes on executing the function until it returns.
SpecScanFair == SpecScan /\ WF_vars(ScanNext)

\* The loop taken an iteration at a time returns what the loop taken from
\* brace to brace (ScanBraces) returns.
ScanAgreesWithScanBraces ==
    vout.pc = "returned" =>
        /\ vout.pos = ScanBraces(vin.content, vin.start_pos, 1)
        /\ vout.result = _extract_block_content(vin.content, vin.start_pos)

\* claims

\* C21: the scan terminates for every text and start position: pos grows by
\* one on every iteration, never passes the end of the text, and the
\* function returns.
C21_ScanTerminates ==
    /\ [](vout.pos <= Len(vin.content))
    /\ [][vout'.pc = "loop" => vout'.pos = vout.pos + 1]_vars
    /\ <>(vout.pc = "returned")

\* an unbalanced text was scanned to its end
C21_Witness ==
    /\ vout.pc = "returned"
    /\ vout.brace_count > 1
    /\ vout.pos = Len(vin.content)
    /\ vin.start_pos = 0
    /\ Len(vin.content) = MaxScanLen

\* the position of the closing brace that matches the opening brace before
\* start: the first at which the running count is back to zero, or -1
MatchingBrace(content, start) ==
    FirstOf({q \in start..(Len(content) - 1) : DepthAfter(content, start, q) = 0})

\* C22: for a block whose braces are balanced the body returned is the text
\* strictly between the opening brace and its matching closing brace, at
\* any depth of nesting.
C22_BalancedBodyIsBetweenBraces ==
    (/\ vout.pc = "returned"
     /\ vin.start_pos > 0
     /\ Ch(vin.content, vin.start_pos - 1) = "{"
     /\ MatchingBrace(vin.content, vin.start_pos) >= 0) =>
        vout.result = Slice(vin.content, vin.start_pos,
                            MatchingBrace(vin.content, vin.start_pos))

\* a body with a nested pair of braces, and text after the closing brace
C22_Witness ==
    /\ vout.pc = "returned"
    /\ vin.content = <<"{", "{", "}", "}", "a">>
    /\ vin.start_pos = 1
    /\ vout.result = <<"{", "}">>

-----------------------------------------------------------------------------
(* audit/terraform_parser.py: _parse_attributes, _extract_resources and     *)
(* _extract_variables called on texts made of a few lines.                  *)

SigResource ==
    <<"r","e","s","o","u","r","c","e"," ","\"","t","\""," ","\"","a","\""," ","{">>
SigVariable ==
    <<"v","a","r","i","a","b","l","e"," ","\"","v","\""," ","{">>
LineName ==
    <<" "," ","n","a","m","e"," ","="," ","\"","x","\"">>
LineRule ==
    <<" "," ","r","u","l","e"," ","{">>
LineNested ==
    <<" "," "," "," ","n","a","m","e"," ","="," ","\"","y","\"">>
LineClose ==
    <<"}">>
LineMore ==
    <<" "," ","m","o","r","e">>

\* Every text of at most MaxLines of these lines.
MaxLines == 4
Lines == {SigResource, SigVariable, LineName, LineRule, LineNested, LineClose, LineMore}
LineTexts == {Join(ls, 1) : ls \in UNION {[1..n -> Lines] : n \in 1..MaxLines}}

ExtractInit ==
    /\ vin \in LineTexts
    /\ vout = NoCall
    /\ ParserIdle /\ WizardIdle /\ TfvarsIdle /\ AuditIdle

CallParseAttributes ==
    /\ vout' = [fn |-> "_parse_attributes", result |-> _parse_attributes(vin)]
    /\ UNCHANGED <<vin, parserVars, wizardVars, tfvarsVars, auditVars>>

CallExtractResources ==
    /\ vout' = [fn |-> "_extract_resources",
                result |-> _extract_resources(vin, PathNames[1])]
    /\ UNCHANGED <<vin, parserVars, wizardVars, tfvarsVars, auditVars>>

CallExtractVariables ==
    /\ vout' = [fn |-> "_extract_variables", result |-> _extract_variables(vin)]
    /\ UNCHANGED <<vin, parserVars, wizardVars, tfvarsVars, auditVars>>

ExtractNext ==
    \/ CallParseAttributes
    \/ CallExtractResources
    \/ CallExtractVariables

SpecExtract == ExtractInit /\ [][ExtractNext]_vars

\* claims

\* a line that starts a key assignment: at a line start, blanks, a key, '='
AssignAt(s, p) ==
    IF ~(p = 0 \/ Ch(s, p - 1) = Newline) THEN NoMatch
    ELSE LET k0 == SkipSpace(s, p)
         IN  IF ~(k0 < Len(s) /\ IsKeyStart(Ch(s, k0))) THEN NoMatch
             ELSE LET k1 == SkipKey(s, k0 + 1)
                      e0 == SkipSpace(s, k1)
                  IN  IF e0 < Len(s) /\ Ch(s, e0) = "="
                      THEN [ok |-> TRUE, key |-> Slice(s, k0, k1), keyat |-> k0,
                            after |-> e0 + 1]
                      ELSE NoMatch
\* the lines that start a key assignment, by the position of their start
AssignStarts(s) ==
    {p \in 0..(Len(s) - 1) :
        /\ AssignAt(s, p).ok
        /\ \A i \in p..(AssignAt(s, p).keyat - 1) : Ch(s, i) # Newline}
\* the value of the assignment at p: the text after '=' up to the next line
\* that starts a key assignment, or the end of the body
ValueToNextAssignment(s, p) ==
    LET a == AssignAt(s, p).after
        e == FirstOf({q \in a..Len(s) :
                         q = Len(s) \/ (Ch(s, q) = Newline /\ AssignAt(s, q + 1).ok)})
    IN  Strip(Slice(s, a, e))

\* the nesting level at p, and a body whose braces pair up
BraceDepth(s, p) ==
    Cardinality({i \in 0..(p - 1) : Ch(s, i) = "{"})
        - Cardinality({i \in 0..(p - 1) : Ch(s, i) = "}"})
NeverNegative(s) == \A p \in 0..Len(s) : BraceDepth(s, p) >= 0
BalancedBody(s) == NeverNegative(s) /\ BraceDepth(s, Len(s)) = 0

\* C23: in a body whose braces pair up, the value captured for a key is
\* everything after the '=' up to the next line that starts a key assignment, or the end of the body; a line
\* that starts none (a continuation line, a closing brace) does not end it.
C23_ValueRunsToNextAssignment ==
    (vout.fn = "_parse_attributes" /\ BalancedBody(vin)) =>
        \A p \in AssignStarts(vin) :
            (\A q \in AssignStarts(vin) : AssignAt(vin, q).key = AssignAt(vin, p).key => q = p)
                => /\ AssignAt(vin, p).key \in DOMAIN vout.result
                   /\ vout.result[AssignAt(vin, p).key] = ValueToNextAssignment(vin, p)

TopLevelAssigns(s, key) ==
    {p \in AssignStarts(s) : AssignAt(s, p).key = key /\ BraceDepth(s, p) = 0}

\* C24: every key of the map returned for a body is the key of an
\* assignment at the top nesting level of the body, and the value of a
\* top-level key is the one captured at its last top-level assignment: an
\* assignment inside a nested sub-block neither adds a key nor overwrites.
C24_OnlyTopLevelAssignments ==
    (vout.fn = "_parse_attributes" /\ BalancedBody(vin)) =>
        \A key \in DOMAIN vout.result :
            /\ TopLevelAssigns(vin, key) # {}
            /\ LET p == CHOOSE x \in TopLevelAssigns(vin, key) :
                            \A y \in TopLevelAssigns(vin, key) : y <= x
               IN  vout.result[key] = Strip(MatchAttrAt(vin, p).g2)

\* C25: a resource signature inside the body of another block is not
\* reported: for a text whose braces pair up, the number of resources
\* returned is the number of resource
\* signatures at the top nesting level of the text.
C25_OnlyTopLevelBlocks ==
    (vout.fn = "_extract_resources" /\ BalancedBody(vin)) =>
        Len(vout.result)
            = Cardinality({p \in 0..(Len(vin) - 1) :
                              MatchResourceAt(vin, p).ok /\ BraceDepth(vin, p) = 0})

-----------------------------------------------------------------------------
(* C30: the filters of AuditReport.                                         *)

\* the positions of the findings list that hold a finding of the set
PositionsOf(wanted) == {i \in 1..Len(report.findings) : report.findings[i] \in wanted}
\* the k-th position of a set of positions, counted from the front
NthOf(positions, k) ==
    CHOOSE i \in positions : Cardinality({j \in positions : j <= i}) = k
\* result holds the findings of the set, each once, in the list's order
ListsInOrder(result, wanted) ==
    /\ Len(result) = Cardinality(PositionsOf(wanted))
    /\ \A k \in 1..Len(result) : result[k] = report.findings[NthOf(PositionsOf(wanted), k)]
QuickWins == {f \in Findings : f.effort = "low" /\ f.severity \in {"high", "medium"}}
OfSeverity(severity) == {f \in Findings : f.severity = severity}

\* C30: get_quick_wins returns the findings of low effort and HIGH or MEDIUM
\* severity, in the order they were added, and no finding of CRITICAL or LOW
\* severity; get_findings_by_severity returns the findings of the severity
\* in the order they were added, and the results for the four severities
\* hold every finding of the list exactly once.
C30_QuickWinsAndSeverityPartition ==
    /\ acall.op = "get_quick_wins" =>
          /\ report.findings = acall.before
          /\ ListsInOrder(acall.result, QuickWins)
          /\ \A k \in 1..Len(acall.result) :
                acall.result[k].severity \notin {"critical", "low"}
    /\ acall.op = "get_findings_by_severity" =>
          /\ report.findings = acall.before
          /\ ListsInOrder(acall.result, OfSeverity(acall.severity))
          /\ \A severity \in Severity :
                ListsInOrder(get_findings_by_severity(report, severity), OfSeverity(severity))
          /\ \A i \in 1..Len(report.findings) :
                Cardinality({severity \in Severity : i \in PositionsOf(OfSeverity(severity))}) = 1
          /\ Len(get_findings_by_severity(report, "critical"))
                + Len(get_findings_by_severity(report, "high"))
                + Len(get_findings_by_severity(report, "medium"))
                + Len(get_findings_by_severity(report, "low")) = Len(report.findings)

\* two quick wins out of three findings, the one left out being of low
\* effort and CRITICAL severity
C30_Witness ==
    /\ acall.op = "get_quick_wins"
    /\ Len(report.findings) = 3
    /\ report.findings[2].effort = "low" /\ report.findings[2].severity = "critical"
    /\ acall.result = <<report.findings[1], report.findings[3]>>
    /\ report.findings[1] # report.findings[3]

====
